---- MODULE Spec2Model ----
(***************************************************************************)
(* A model of the gemoji GNOME Shell emoji picker: the search filter       *)
(* (core/searchManager.js), the usage tracker (core/usageTracker.js), the  *)
(* category list (core/emojiData.js), the grouped renderer                 *)
(* (core/emojiRenderer.js), the category/scroll controller                 *)
(* (core/categoryManager.js), the dataset loader (core/emojiData.js), the  *)
(* skin-tone selector (core/skinToneSelector.js), the selection flow and  *)
(* row layout of the popup (extension.js), the shortcut                    *)
(* (core/keybindingManager.js), the popup size (core/popupSizeManager.js)  *)
(* and the extension's life cycle, enable() and disable() (extension.js).  *)
(*                                                                         *)
(* A JavaScript string is a sequence of UTF-16 code units (naturals).  An  *)
(* emoji record is [emoji, description, category, aliases, tags].  A JS    *)
(* Map is a sequence of <<key, value>> entries in insertion order.         *)
(***************************************************************************)
EXTENDS Integers, Sequences, FiniteSets, TLC

VARIABLES
    emojiData,      \* the dataset the extension loaded (read-only afterwards)
    mode,           \* which part of the program this behaviour exercises
    \* ---- SearchManager.filterEmojis
    query,          \* the query of the last filterEmojis call
    results,        \* what that call returned
    filtered,       \* TRUE once filterEmojis has been called
    \* ---- UsageTracker
    usageCount,     \* #usageCount: Map glyph -> count, as entries in insertion order
    saveTimers,     \* pending GLib timeouts of trackUsage: remaining milliseconds each
    persisted,      \* the 'emoji-usage-counts' setting: the entries last written
    tracked,        \* history: glyph -> trackUsage calls since the map was last empty
    burstCalls,     \* history: trackUsage calls since no save timer was pending
    burstWrites,    \* history: writes since no save timer was pending
    burstMixed,     \* history: the burst holds a call made after one of its writes, or a clear
    lastOp,         \* the tracker/pure operation performed last
    frequent,       \* what the last getFrequentlyUsed call returned
    limit,          \* the limit of the last getFrequentlyUsed call
    \* ---- collectCategories
    categories,     \* what the last collectCategories call returned
    \* ---- the popup: CategoryManager, the emoji grid and its scroll view
    categoryButtons,    \* #categoryButtons: the categories that have a tab, in tab order
    activeButtons,      \* the tabs whose button carries the style class 'active'
    currentCategory,    \* #currentCategory
    categorySections,   \* #categorySections: entries <<category, header offset y1>>
    view,               \* what the grid shows: "none", "grouped" or "flat"
    gridHeaders,        \* the headers now in the grid: entries <<category, offset y1>>
    contentHeight,      \* height of the grid's content
    scrollValue,        \* value of the scroll view's vertical adjustment
    programmaticScroll, \* #programmaticScroll
    popupTimers,        \* pending GLib timeouts of setCategory: [kind, category, ms]
    clicked,            \* history: the category clicked in the step before, or ""
    lastFire,           \* history: what the scroll timeout of the step before did, or <<>>
    \* ---- the popup: the search entry and SearchManager's debounce
    popupOpen,          \* the popup is shown (not hidden by #hidePopup)
    searchText,         \* the text of the search entry, as typed
    searchTimers,       \* pending GLib timeouts of queueFilter: [id, ms]
    searchTimeoutId,    \* #searchTimeoutId (0: none)
    searchRuns,         \* history: search callbacks run since the last filter request
    searchBurst,        \* history: requests of the current burst (2: two or more)
    searchRan,          \* history: how the step before ran the search callback, or ""
    \* ---- SkinToneSelector.#applyTone
    baseGlyph,          \* the glyph the tones are applied to
    tonedGlyph,         \* what the applications so far gave
    appliedTones,       \* the modifiers applied, in order
    \* ---- the extension around the popup: loader, settings backend, clipboard,
    \* ---- tone selector, popup size
    datasetFile,        \* the file data/emoji.json the loader reads
    loadThrew,          \* loadEmojiData left by an exception
    backend,            \* how reading 'emoji-usage-counts' goes
    clipboard,          \* the text last set on the clipboard
    pasteOnSelect,      \* the setting 'paste-on-select'
    pasteTimers,        \* pending GLib timeouts of pasteEmoji: remaining ms each
    pastes,             \* history: paste callbacks run
    toast,              \* the message of the last notification
    skinToneSelector,   \* #skinToneSelector of the renderer: null or a selector
    selectorCurrent,    \* #currentEmoji of the selector: no record or one
    selectorVisible,    \* the selector's container is visible
    selected,           \* history: what #handleEmojiSelected got in the step before
    activated,          \* history: index of the element activated in the step before
    handlerThrew,       \* history: the handler of the step before threw
    selections,         \* history: selections made
    failedWrites,       \* history: writes of the setting that failed
    sizeMode,           \* the setting 'popup-size-mode'
    customWidth,        \* the setting 'popup-width'
    gridRows,           \* the rows now in the grid: [category, items]
    \* ---- the extension object and the shell around it
    extEnabled,         \* enable() has run and disable() has not
    enables,            \* history: enable() calls so far
    useKeybind,         \* the setting 'use-keybind'
    showIndicator,      \* the setting 'show-indicator'
    currentMode,        \* PopupSizeManager.#currentMode ("" while there is no manager)
    kbRegistered,       \* KeybindingManager.#registered
    wmBindings,         \* the shell: bindings of 'emoji-keybinding' installed
    kbOp,               \* history: the KeybindingManager method called last
    kbFailed,           \* history: addKeybinding or removeKeybinding threw in it
    kbCalls,            \* history: calls of the manager's methods so far
    extHandlers,        \* the shell: 'changed' handlers of the extension connected
    sizeHandlers,       \* the shell: 'changed' handlers of PopupSizeManager connected
    button,             \* #button is set
    panelButtons,       \* the shell: panel buttons of the extension that exist
    sizeCallbacks,      \* history: calls of the size-change callback in the last
                        \* change of a size setting (0 after enable() and disable())
    staleSaves,         \* save timeouts of trackers of earlier enable() calls:
                        \* [ms, map], the Map their tracker holds
    popups,             \* the shell: popup widgets of the extension that exist
    builtWidth          \* the width the popup was built with (0: none built)

vars == <<emojiData, mode, query, results, filtered, usageCount, saveTimers,
          persisted, tracked, burstCalls, burstWrites, burstMixed, lastOp,
          frequent, limit, categories, categoryButtons, activeButtons,
          currentCategory, categorySections, view, gridHeaders, contentHeight,
          scrollValue, programmaticScroll, popupTimers, clicked, lastFire,
          popupOpen, searchText, searchTimers, searchTimeoutId, searchRuns, searchBurst,
          searchRan, baseGlyph, tonedGlyph, appliedTones, datasetFile, loadThrew,
          backend, clipboard, pasteOnSelect, pasteTimers, pastes, toast,
          skinToneSelector, selectorCurrent, selectorVisible, selected, activated,
          handlerThrew, selections, failedWrites, sizeMode, customWidth, gridRows,
          extEnabled, enables, useKeybind, showIndicator, currentMode, kbRegistered,
          wmBindings, kbOp, kbFailed, kbCalls, extHandlers, sizeHandlers, button, panelButtons,
          sizeCallbacks, staleSaves, popups, builtWidth>>

toneVars == <<baseGlyph, tonedGlyph, appliedTones>>

loaderVars == <<datasetFile, loadThrew>>

selectVars == <<backend, clipboard, pasteOnSelect, pasteTimers, pastes, toast,
                skinToneSelector, selectorCurrent, selectorVisible, selected,
                activated, handlerThrew, selections, failedWrites>>

rowVars == <<sizeMode, customWidth, gridRows>>

extVars == <<extEnabled, enables, useKeybind, showIndicator, currentMode,
             kbRegistered, wmBindings, kbOp, kbFailed, kbCalls, extHandlers,
             sizeHandlers, button, panelButtons, sizeCallbacks, staleSaves>>

popupLedger == <<popups, builtWidth>>

hostVars == <<loaderVars, selectVars, rowVars, extVars, popupLedger>>

searchVars == <<popupOpen, searchText, searchTimers, searchTimeoutId, searchRuns,
                searchBurst>>

popupVars == <<categoryButtons, activeButtons, currentCategory, categorySections,
               view, gridHeaders, contentHeight, scrollValue, programmaticScroll,
               popupTimers, clicked, lastFire, searchVars, searchRan, toneVars,
               hostVars>>

\* No tone has been applied.
NoTone ==
    /\ baseGlyph = <<>>
    /\ tonedGlyph = <<>>
    /\ appliedTones = <<>>

\* The loader has not run.
NoLoader ==
    /\ datasetFile = [exists |-> FALSE, contents |-> "ok", text |-> "array", data |-> <<>>]
    /\ loadThrew = FALSE

\* Nothing has been selected; the renderer has no tone selector.
NoSelect ==
    /\ backend = "ok"
    /\ clipboard = <<>>
    /\ pasteOnSelect = FALSE
    /\ pasteTimers = <<>>
    /\ pastes = 0
    /\ toast = <<>>
    /\ skinToneSelector = "null"
    /\ selectorCurrent = <<>>
    /\ selectorVisible = FALSE
    /\ selected = <<>>
    /\ activated = 0
    /\ handlerThrew = FALSE
    /\ selections = 0
    /\ failedWrites = 0

\* No rows have been rendered.
NoRows ==
    /\ sizeMode = "default"
    /\ customWidth = 0
    /\ gridRows = <<>>

\* The extension object and the shell are not followed.
NoExt ==
    /\ extEnabled = FALSE
    /\ enables = 0
    /\ useKeybind = FALSE
    /\ showIndicator = FALSE
    /\ currentMode = ""
    /\ kbRegistered = FALSE
    /\ wmBindings = 0
    /\ kbOp = ""
    /\ kbFailed = FALSE
    /\ kbCalls = 0
    /\ extHandlers = 0
    /\ sizeHandlers = 0
    /\ button = FALSE
    /\ panelButtons = 0
    /\ sizeCallbacks = 0
    /\ staleSaves = <<>>
    /\ popups = 0
    /\ builtWidth = 0

\* Nothing outside the popup has run.
NoHost == NoLoader /\ NoSelect /\ NoRows /\ NoExt

\* No popup has been built.
NoPopup ==
    /\ categoryButtons = <<>>
    /\ activeButtons = {}
    /\ currentCategory = ""
    /\ categorySections = <<>>
    /\ view = "none"
    /\ gridHeaders = <<>>
    /\ contentHeight = 0
    /\ scrollValue = 0
    /\ programmaticScroll = FALSE
    /\ popupTimers = <<>>
    /\ clicked = ""
    /\ lastFire = <<>>
    /\ popupOpen = FALSE
    /\ searchText = <<>>
    /\ searchTimers = <<>>
    /\ searchTimeoutId = 0
    /\ searchRuns = 0
    /\ searchBurst = 0
    /\ searchRan = ""

(***************************************************************************)
(* Strings                                                                 *)
(***************************************************************************)
\* One code unit under String.prototype.toLowerCase (ASCII range of the model).
LowerUnit(c) == IF c >= 65 /\ c <= 90 THEN c + 32 ELSE c

toLowerCase(s) == [i \in 1..Len(s) |-> LowerUnit(s[i])]

IsWhite(c) == c = 32

RECURSIVE trimStart(_)
trimStart(s) == IF s /= <<>> /\ IsWhite(Head(s)) THEN trimStart(Tail(s)) ELSE s

RECURSIVE trimEnd(_)
trimEnd(s) ==
    IF s /= <<>> /\ IsWhite(s[Len(s)]) THEN trimEnd(SubSeq(s, 1, Len(s) - 1)) ELSE s

trim(s) == trimEnd(trimStart(s))

\* Array.prototype.join
RECURSIVE join(_, _)
join(parts, sep) ==
    IF parts = <<>> THEN <<>>
    ELSE IF Len(parts) = 1 THEN parts[1]
    ELSE parts[1] \o sep \o join(Tail(parts), sep)

\* String.prototype.includes
includes(s, q) == \E i \in 0..(Len(s) - Len(q)) : SubSeq(s, i + 1, i + Len(q)) = q

(***************************************************************************)
(* Emoji records and datasets                                              *)
(***************************************************************************)
\* Code units used by the records of the model.
GRINNING == <<55357, 56832>>    \* U+1F600
HEART    == <<10084, 65039>>    \* U+2764 U+FE0F
THUMBS   == <<55357, 56397>>    \* U+1F44D

EmojiRecord(e, d, c, a, t) ==
    [emoji |-> e, description |-> d, category |-> c, aliases |-> a, tags |-> t]

\* The records datasets are built from: upper and lower case text, an empty
\* description, empty alias and tag lists, two records with the same glyph, a
\* category outside the predefined list.
RecordKinds ==
    { EmojiRecord(GRINNING, <<65>>, "Smileys & Emotion", << <<98>> >>, <<>>),
      EmojiRecord(HEART, <<>>, "Symbols", <<>>, << <<97, 98>> >>),
      EmojiRecord(THUMBS, <<98>>, "People & Body", << <<97>> >>, << <<66>> >>),
      EmojiRecord(GRINNING, <<98, 97>>, "Other", <<>>, <<>>) }

\* Longest dataset enumerated in full.
MaxLen == 3

SeqsUpTo(S, n) == UNION { [1..k -> S] : k \in 0..n }

Datasets == SeqsUpTo(RecordKinds, MaxLen)

\* The glyphs selections are made of.
Glyphs == {GRINNING, HEART, THUMBS}

(***************************************************************************)
(* JavaScript Map, as its entries <<key, value>> in insertion order        *)
(***************************************************************************)
mapHas(m, k) == \E i \in 1..Len(m) : m[i][1] = k

\* m.get(k) || d
mapGetOr(m, k, d) ==
    IF mapHas(m, k) THEN m[CHOOSE i \in 1..Len(m) : m[i][1] = k][2] ELSE d

\* m.set(k, v): an existing key keeps its place, a new one goes last.
mapSet(m, k, v) ==
    IF mapHas(m, k) THEN [i \in 1..Len(m) |-> IF m[i][1] = k THEN <<k, v>> ELSE m[i]]
    ELSE Append(m, <<k, v>>)

(***************************************************************************)
(* SearchManager                                                           *)
(***************************************************************************)
MAX_VISIBLE_EMOJIS == 360

\* Longest raw search text enumerated.
MaxQueryLen == 3

\* Characters a raw search text is made of: a, b, A and the space.
RawChars == {97, 98, 65, 32}

RawTexts == SeqsUpTo(RawChars, MaxQueryLen)

\* A getQuery that lower-cases the text without trimming it.
getQuery_NoTrim(raw) == toLowerCase(raw)

\* getQuery: the entry's text, trimmed and lower-cased.
getQuery(raw) == toLowerCase(trim(raw))

Queries == { getQuery(raw) : raw \in RawTexts }

\* The fields of a record that filterEmojis searches, empty ones dropped.
searchFields(item) ==
    SelectSeq(<<item.emoji, item.description>> \o item.aliases \o item.tags,
              LAMBDA f : f /= <<>>)

\* A search that forgets to lower-case the record's text.
haystack_CaseSensitive(item) == join(searchFields(item), <<32>>)

\* The lower-case text filterEmojis searches for the query.
haystack(item) == toLowerCase(join(searchFields(item), <<32>>))

\* One iteration of the for loop of filterEmojis on data[i], acc being the
\* results so far: the record is pushed when its haystack includes the query.
filterStep(q, data, i, acc) ==
    IF includes(haystack(data[i]), q) THEN Append(acc, data[i]) ELSE acc

\* A cap test that lets one record too many through.
capReached_OffByOne(acc) == Len(acc) > MAX_VISIBLE_EMOJIS

\* The test after a push that ends the loop.
capReached(acc) == Len(acc) >= MAX_VISIBLE_EMOJIS

\* The iterations lo..hi of the loop, in order.  The range is split in halves
\* (which keeps the evaluation shallow on long datasets); the loop leaves by
\* break as soon as a push has brought the results to the cap, so the later
\* half runs only when the earlier one ended below it.
RECURSIVE filterLoop(_, _, _, _, _)
filterLoop(q, data, lo, hi, acc) ==
    IF lo > hi THEN acc
    ELSE IF lo = hi THEN filterStep(q, data, lo, acc)
    ELSE LET mid == (lo + hi) \div 2
             first == filterLoop(q, data, lo, mid, acc)
         IN  IF capReached(first) THEN first
             ELSE filterLoop(q, data, mid + 1, hi, first)

\* A filter without the early return for the empty query.
filterEmojis_NoEmptyCheck(q, data) == filterLoop(q, data, 1, Len(data), <<>>)

filterEmojis(q, data) ==
    IF q = <<>> THEN data ELSE filterLoop(q, data, 1, Len(data), <<>>)

\* How many records beyond the cap the long datasets run to.
LongExtra == 2

\* A dataset of n records repeating a pattern.
Repeat(pattern, n) == [i \in 1..n |-> pattern[((i - 1) % Len(pattern)) + 1]]

\* Datasets around the result cap.
LongDatasets ==
    { Repeat(p, n) : p \in (SeqsUpTo(RecordKinds, 2) \ {<<>>}),
                     n \in (MAX_VISIBLE_EMOJIS - 1)..(MAX_VISIBLE_EMOJIS + LongExtra) }

(***************************************************************************)
(* Specification of the search filter                                      *)
(***************************************************************************)
InitCommon ==
    /\ query = <<>>
    /\ results = <<>>
    /\ filtered = FALSE
    /\ saveTimers = <<>>
    /\ tracked = [g \in Glyphs |-> 0]
    /\ burstCalls = 0
    /\ burstWrites = 0
    /\ burstMixed = FALSE
    /\ lastOp = "init"
    /\ frequent = <<>>
    /\ limit = 0
    /\ categories = <<>>

InitFilter ==
    /\ mode = "filter"
    /\ emojiData \in Datasets \cup LongDatasets
    /\ persisted = <<>>
    /\ usageCount = <<>>
    /\ InitCommon
    /\ NoPopup
    /\ NoTone
    /\ NoHost

\* The call filterEmojis(q, emojiData) under study, q being what getQuery
\* returns for some entry text.
FilterEmojis(q) ==
    /\ mode = "filter"
    /\ ~filtered
    /\ query' = q
    /\ results' = filterEmojis(q, emojiData)
    /\ filtered' = TRUE
    /\ UNCHANGED <<emojiData, mode, usageCount, saveTimers, persisted, tracked,
                   burstCalls, burstWrites, burstMixed, lastOp, frequent, limit, categories>>
    /\ UNCHANGED popupVars

NextFilter == \E q \in Queries : FilterEmojis(q)

SpecFilter == InitFilter /\ [][NextFilter]_vars

(***************************************************************************)
(* Claims about the search filter                                          *)
(***************************************************************************)
\* The haystack of a record as the specification describes it: glyph,
\* description, aliases and tags, the empty ones skipped, joined by single
\* spaces, in lower case.
RECURSIVE SpacedConcat(_)
SpacedConcat(fs) ==
    IF Len(fs) = 0 THEN <<>>
    ELSE IF Len(fs) = 1 THEN fs[1]
    ELSE fs[1] \o <<32>> \o SpacedConcat(Tail(fs))

LowerHaystack(r) ==
    LET all == <<r.emoji, r.description>> \o r.aliases \o r.tags
        text == SpacedConcat(SelectSeq(all, LAMBDA f : Len(f) > 0))
    IN  [i \in DOMAIN text |-> IF text[i] \in 65..90 THEN text[i] + 32 ELSE text[i]]

\* q occurs in the lower-case haystack of r.
Matches(r, q) ==
    LET h == LowerHaystack(r) IN
    \E i \in 1..Len(h) :
        /\ i + Len(q) - 1 <= Len(h)
        /\ \A j \in 1..Len(q) : h[i + j - 1] = q[j]

MatchingRecords == SelectSeq(emojiData, LAMBDA r : Matches(r, query))

\* C1: for a non-empty query every returned record has the query as a
\* substring of its lower-case haystack, and while the cap is not reached the
\* result is all the matching records of the dataset.
C1_FilterSoundAndComplete ==
    (filtered /\ query /= <<>>) =>
        /\ \A k \in 1..Len(results) : Matches(results[k], query)
        /\ Len(results) < MAX_VISIBLE_EMOJIS => results = MatchingRecords

\* C1 witness: a query with an inner space matched across two fields, found in
\* upper-case text, with a record of the dataset left out because it does not match.
C1_Witness ==
    /\ filtered
    /\ query = <<97, 32, 98>>
    /\ Len(results) > 0
    /\ Len(results) < Len(emojiData)
    /\ Len(results) < MAX_VISIBLE_EMOJIS

\* C2: for the empty query filterEmojis returns the dataset itself, whatever
\* its length.
C2_EmptyQueryReturnsAll == (filtered /\ query = <<>>) => results = emojiData

\* C2 witness: the empty query on a dataset longer than the cap.
C2_Witness == filtered /\ query = <<>> /\ Len(results) > MAX_VISIBLE_EMOJIS

\* C3: for a non-empty query the result never exceeds the cap, and when more
\* records match it is the first MAX_VISIBLE_EMOJIS matches in dataset order.
C3_CapKeepsFirstMatches ==
    (filtered /\ query /= <<>>) =>
        /\ Len(results) <= MAX_VISIBLE_EMOJIS
        /\ Len(MatchingRecords) > MAX_VISIBLE_EMOJIS =>
               results = SubSeq(MatchingRecords, 1, MAX_VISIBLE_EMOJIS)

\* C3 witness: more matches than the cap, and the kept prefix differs from the
\* matches taken one position later.
C3_Witness ==
    /\ filtered
    /\ query /= <<>>
    /\ Len(MatchingRecords) > MAX_VISIBLE_EMOJIS
    /\ Len(results) = MAX_VISIBLE_EMOJIS
    /\ results /= SubSeq(MatchingRecords, 2, MAX_VISIBLE_EMOJIS + 1)

(***************************************************************************)
(* UsageTracker                                                            *)
(***************************************************************************)
\* Delay of the save timeout trackUsage adds, in milliseconds.
SAVE_DELAY_MS == 500

\* Largest count a glyph is tracked to.
MaxCount == 2

\* Most save timeouts pending at once.
MaxPending == 3

\* Most trackUsage calls made while save timeouts stay pending.
MaxBurst == 3

\* Milliseconds by which one step lets time pass.
TickMs == 250

\* Object.fromEntries + JSON.stringify, then JSON.parse + Object.entries: the
\* setting holds the mapping as a JSON object, whose keys are unique and, for
\* glyph keys, stay in insertion order.  An earlier entry of a key is dropped.
toStored(m) ==
    SelectSeq([i \in 1..Len(m) |-> IF \E j \in (i + 1)..Len(m) : m[j][1] = m[i][1]
                                   THEN <<>> ELSE m[i]],
              LAMBDA e : e /= <<>>)

\* loadUsageData: the Map built from the stored object's entries; an empty
\* setting leaves the Map of the constructor.
loadUsageData(stored) == stored

\* saveUsageData: what set_string stores for the Map m.
saveUsageData(m) == toStored(m)

\* A trackUsage that counts a selection twice.
trackUsageMap_Twice(m, emoji) == mapSet(m, emoji, mapGetOr(m, emoji, 0) + 2)

\* A trackUsage that forgets the current count.
trackUsageMap_Forget(m, emoji) == mapSet(m, emoji, 1)

\* The Map after trackUsage(emoji).
trackUsageMap(m, emoji) == mapSet(m, emoji, mapGetOr(m, emoji, 0) + 1)

Max(a, b) == IF a >= b THEN a ELSE b
Min(a, b) == IF a <= b THEN a ELSE b

\* The behaviours that exercise the tracker alone.
TrackerModes == {"tracker", "stored"}

InitTracker ==
    /\ mode = "tracker"
    /\ emojiData = <<>>
    /\ persisted = <<>>
    /\ usageCount = loadUsageData(persisted)
    /\ InitCommon
    /\ NoPopup
    /\ NoTone
    /\ NoHost

\* trackUsage(emoji): the count goes up by one and a save timeout is added;
\* nothing cancels the timeouts added before.
TrackUsage(emoji) ==
    /\ mode \in TrackerModes
    /\ mapGetOr(usageCount, emoji, 0) < MaxCount
    /\ Len(saveTimers) < MaxPending
    /\ saveTimers = <<>> \/ burstCalls < MaxBurst
    /\ usageCount' = trackUsageMap(usageCount, emoji)
    /\ saveTimers' = Append(saveTimers, SAVE_DELAY_MS)
    /\ tracked' = [tracked EXCEPT ![emoji] = @ + 1]
    /\ burstCalls' = IF saveTimers = <<>> THEN 1 ELSE burstCalls + 1
    /\ burstWrites' = IF saveTimers = <<>> THEN 0 ELSE burstWrites
    /\ burstMixed' = IF saveTimers = <<>> THEN FALSE ELSE (burstMixed \/ burstWrites > 0)
    /\ lastOp' = "trackUsage"
    /\ UNCHANGED <<emojiData, mode, query, results, filtered, persisted, frequent,
                   limit, categories>>
    /\ UNCHANGED popupVars

\* The oldest save timeout is due and its callback runs saveUsageData.
SaveTimerFires ==
    /\ mode \in TrackerModes
    /\ saveTimers /= <<>>
    /\ Head(saveTimers) = 0
    /\ saveTimers' = Tail(saveTimers)
    /\ persisted' = saveUsageData(usageCount)
    /\ burstWrites' = burstWrites + 1
    /\ lastOp' = "save"
    /\ UNCHANGED <<emojiData, mode, query, results, filtered, usageCount, tracked,
                   burstCalls, burstMixed, frequent, limit, categories>>
    /\ UNCHANGED popupVars

\* Time passes while no timeout is due.
TickTracker ==
    /\ mode \in TrackerModes
    /\ saveTimers /= <<>>
    /\ \A i \in 1..Len(saveTimers) : saveTimers[i] > 0
    /\ saveTimers' = [i \in 1..Len(saveTimers) |-> Max(0, saveTimers[i] - TickMs)]
    /\ lastOp' = "tick"
    /\ UNCHANGED <<emojiData, mode, query, results, filtered, usageCount, persisted,
                   tracked, burstCalls, burstWrites, burstMixed, frequent, limit,
                   categories>>
    /\ UNCHANGED popupVars

\* clear(): the Map is emptied and saved at once; pending timeouts stay.
ClearUsage ==
    /\ mode \in TrackerModes
    /\ usageCount' = <<>>
    /\ persisted' = saveUsageData(<<>>)
    /\ tracked' = [g \in Glyphs |-> 0]
    /\ burstMixed' = (saveTimers /= <<>>)
    /\ lastOp' = "clear"
    /\ UNCHANGED <<emojiData, mode, query, results, filtered, saveTimers, burstCalls,
                   burstWrites, frequent, limit, categories>>
    /\ UNCHANGED popupVars

NextTracker ==
    \/ \E g \in Glyphs : TrackUsage(g)
    \/ SaveTimerFires
    \/ TickTracker
    \/ ClearUsage

SpecTracker == InitTracker /\ [][NextTracker]_vars

(***************************************************************************)
(* Claims about tracking                                                   *)
(***************************************************************************)
Count(m, g) == mapGetOr(m, g, 0)

CountsMatchCalls == \A g \in Glyphs : Count(usageCount, g) = tracked[g]

C5_OneWritePerBurst ==
    (saveTimers = <<>> /\ burstCalls >= 1 /\ ~burstMixed) =>
        /\ burstWrites = 1
        /\ persisted = saveUsageData(usageCount)

(***************************************************************************)
(* UsageTracker.getFrequentlyUsed                                          *)
(***************************************************************************)
\* The limit the grouped renderer passes.
GROUPED_LIMIT == 30

\* Largest other limit getFrequentlyUsed is called with.
MaxLimit == 3

\* Longest dataset getFrequentlyUsed is enumerated on.
MaxFreqLen == 2

\* How many glyphs beyond GROUPED_LIMIT the large usage map holds.
BigExtra == 2

\* What Map.get returns for a missing key.
UNDEFINED == [undefined |-> TRUE]

\* An index of glyphs in which the first record of a glyph stays.
emojiMapFrom_KeepFirst(data, i, acc) ==
    LET fresh == SelectSeq([j \in 1..Len(data) |->
                               IF \E h \in 1..(j - 1) : data[h].emoji = data[j].emoji
                               THEN <<>> ELSE <<data[j].emoji, data[j]>>],
                           LAMBDA e : e /= <<>>)
    IN  acc \o fresh

\* The loop emojiMap.set(entry.emoji, entry) from dataset index i on.
RECURSIVE emojiMapFrom(_, _, _)
emojiMapFrom(data, i, acc) ==
    IF i > Len(data) THEN acc
    ELSE emojiMapFrom(data, i + 1, mapSet(acc, data[i].emoji, data[i]))

\* e placed in a list sorted by (b, a) => b[1] - a[1]: after every entry whose
\* count is not smaller (the sort is stable).
insertByCount(sorted, e) ==
    LET before == Cardinality({i \in 1..Len(sorted) : sorted[i][2] >= e[2]})
    IN  SubSeq(sorted, 1, before) \o <<e>> \o SubSeq(sorted, before + 1, Len(sorted))

\* Array.prototype.sort with the comparator (a, b) => b[1] - a[1].
RECURSIVE sortByCountDesc(_)
sortByCountDesc(entries) ==
    IF entries = <<>> THEN <<>>
    ELSE insertByCount(sortByCountDesc(SubSeq(entries, 1, Len(entries) - 1)),
                       entries[Len(entries)])

\* Array.prototype.slice(0, n), n >= 0
sliceTo(s, n) == SubSeq(s, 1, Min(n, Len(s)))

\* A getFrequentlyUsed that forgets to cut the list to the limit.
getFrequentlyUsed_NoSlice(m, data, k) ==
    IF Len(m) = 0 THEN <<>>
    ELSE LET emojiMap == emojiMapFrom(data, 1, <<>>)
             top == sortByCountDesc(m)
             found == [i \in 1..Len(top) |-> mapGetOr(emojiMap, top[i][1], UNDEFINED)]
         IN  SelectSeq(found, LAMBDA entry : entry /= UNDEFINED)

\* A getFrequentlyUsed that looks the glyphs up before it cuts the list.
getFrequentlyUsed_LookupFirst(m, data, k) ==
    IF Len(m) = 0 THEN <<>>
    ELSE LET emojiMap == emojiMapFrom(data, 1, <<>>)
             sorted == sortByCountDesc(m)
             found == [i \in 1..Len(sorted) |-> mapGetOr(emojiMap, sorted[i][1], UNDEFINED)]
         IN  sliceTo(SelectSeq(found, LAMBDA entry : entry /= UNDEFINED), k)

\* getFrequentlyUsed(emojiData, limit) on the Map m.
getFrequentlyUsed(m, data, k) ==
    IF Len(m) = 0 THEN <<>>
    ELSE LET emojiMap == emojiMapFrom(data, 1, <<>>)
             top == sliceTo(sortByCountDesc(m), k)
             found == [i \in 1..Len(top) |-> mapGetOr(emojiMap, top[i][1], UNDEFINED)]
         IN  SelectSeq(found, LAMBDA entry : entry /= UNDEFINED)

\* Sequences without repetition over S.
DistinctSeqs(S) ==
    { s \in SeqsUpTo(S, Cardinality(S)) :
          \A i, j \in 1..Len(s) : i /= j => s[i] /= s[j] }

\* The usage maps a session can start from: what an earlier session stored.
StoredMaps ==
    UNION { { [i \in 1..Len(gs) |-> <<gs[i], c[i]>>] : c \in [1..Len(gs) -> 1..MaxCount] } :
            gs \in DistinctSeqs(Glyphs) }

\* A usage map of more glyphs than the grouped view shows, and its dataset.
BigGlyph(i) == <<55357, 56832 + i>>
BigMap == [i \in 1..(GROUPED_LIMIT + BigExtra) |-> <<BigGlyph(i), 1 + (i % 3)>>]
BigData ==
    [i \in 1..(GROUPED_LIMIT + BigExtra) |->
        EmojiRecord(BigGlyph(i), <<97>>, "Smileys & Emotion", <<>>, <<>>)]

InitFrequent ==
    /\ mode = "frequent"
    /\ \/ /\ emojiData \in SeqsUpTo(RecordKinds, MaxFreqLen)
          /\ persisted \in StoredMaps
       \/ /\ emojiData = BigData
          /\ persisted = BigMap
    /\ usageCount = loadUsageData(persisted)
    /\ InitCommon
    /\ NoPopup
    /\ NoTone
    /\ NoHost

\* A call getFrequentlyUsed(emojiData, k).
GetFrequentlyUsed(k) ==
    /\ mode = "frequent"
    /\ lastOp = "init"
    /\ frequent' = getFrequentlyUsed(usageCount, emojiData, k)
    /\ limit' = k
    /\ lastOp' = "getFrequentlyUsed"
    /\ UNCHANGED <<emojiData, mode, query, results, filtered, usageCount, saveTimers,
                   persisted, tracked, burstCalls, burstWrites, burstMixed, categories>>
    /\ UNCHANGED popupVars

\* The call renderEmojisByCategory makes: getFrequentlyUsed(emojiData, 30).
RenderFrequentlyUsed ==
    /\ mode = "frequent"
    /\ lastOp = "init"
    /\ frequent' = getFrequentlyUsed(usageCount, emojiData, GROUPED_LIMIT)
    /\ limit' = GROUPED_LIMIT
    /\ lastOp' = "render"
    /\ UNCHANGED <<emojiData, mode, query, results, filtered, usageCount, saveTimers,
                   persisted, tracked, burstCalls, burstWrites, burstMixed, categories>>
    /\ UNCHANGED popupVars

NextFrequent ==
    \/ \E k \in 0..MaxLimit : GetFrequentlyUsed(k)
    \/ RenderFrequentlyUsed

SpecFrequent == InitFrequent /\ [][NextFrequent]_vars

(***************************************************************************)
(* UsageTracker on a setting written by others                             *)
(***************************************************************************)
\* How far below zero the numbers of a stored mapping are enumerated.
MaxBelowZero == 1

\* The objects of glyph keys and integer values the setting may hold: any text
\* can be written to 'emoji-usage-counts', and JSON.parse accepts these.
StoredObjects ==
    UNION { { [i \in 1..Len(gs) |-> <<gs[i], c[i]>>] :
                  c \in [1..Len(gs) -> (0 - MaxBelowZero)..MaxCount] } :
            gs \in {s \in DistinctSeqs(Glyphs) : Len(s) <= 2} }

\* new UsageTracker(settings) on a setting that holds such an object.
InitStored ==
    /\ mode = "stored"
    /\ emojiData = <<>>
    /\ persisted \in StoredObjects
    /\ usageCount = loadUsageData(persisted)
    /\ InitCommon
    /\ NoPopup
    /\ NoTone
    /\ NoHost

SpecStored == InitStored /\ [][NextTracker]_vars

(***************************************************************************)
(* Claims about getFrequentlyUsed                                          *)
(***************************************************************************)
FrequentCalled == lastOp \in {"getFrequentlyUsed", "render"}

InDataset(r) == \E i \in 1..Len(emojiData) : emojiData[i] = r

\* C6: getFrequentlyUsed returns at most `limit` records, in non-increasing
\* order of tracked count, each a record of the dataset; nothing for an empty
\* usage map; and the grouped view asks for 30.
C6_FrequentlyUsedBounded ==
    FrequentCalled =>
        /\ Len(frequent) <= limit
        /\ \A i, j \in 1..Len(frequent) :
               i < j => Count(usageCount, frequent[i].emoji) >= Count(usageCount, frequent[j].emoji)
        /\ \A i \in 1..Len(frequent) : InDataset(frequent[i])
        /\ usageCount = <<>> => frequent = <<>>
        /\ lastOp = "render" => limit = 30

\* C6 witness: the grouped view's call on a usage map of more than 30 glyphs,
\* all in the dataset, with different counts among the 30 returned.
C6_Witness ==
    /\ lastOp = "render"
    /\ Len(usageCount) > 30
    /\ Len(frequent) = 30
    /\ Count(usageCount, frequent[1].emoji) > Count(usageCount, frequent[30].emoji)

\* The positions of the dataset that hold the glyph of r.
PositionsOf(r) == {i \in 1..Len(emojiData) : emojiData[i].emoji = r.emoji}

\* C7 as stated: of several records with one glyph, getFrequentlyUsed returns
\* the first in dataset order.
C7_ReturnsFirstDuplicate ==
    FrequentCalled =>
        \A i \in 1..Len(frequent) :
            frequent[i] = emojiData[CHOOSE p \in PositionsOf(frequent[i]) :
                                       \A o \in PositionsOf(frequent[i]) : p <= o]

\* C7 amended: of several records with one glyph, getFrequentlyUsed returns
\* the last in dataset order.
C7_ReturnsLastDuplicate ==
    FrequentCalled =>
        \A i \in 1..Len(frequent) :
            frequent[i] = emojiData[CHOOSE p \in PositionsOf(frequent[i]) :
                                       \A o \in PositionsOf(frequent[i]) : p >= o]

\* C7 witness: a returned record whose glyph two different records carry.
C7_Witness ==
    /\ FrequentCalled
    /\ \E i \in 1..Len(frequent) :
           \E p, o \in PositionsOf(frequent[i]) : emojiData[p] /= emojiData[o]

(***************************************************************************)
(* collectCategories                                                       *)
(***************************************************************************)
FLAG == <<55356, 57331>>    \* U+1F3F3

\* Records of every kind of category: predefined ones, "Other" (the loader's
\* default), the empty string, and the synthetic name itself.
CategoryRecordKinds ==
    RecordKinds \cup
    { EmojiRecord(FLAG, <<97>>, "Flags", <<>>, <<>>),
      EmojiRecord(FLAG, <<98>>, "", <<>>, <<>>) }

\* Longest dataset collectCategories is enumerated on.
MaxCatLen == 3

orderedCategories ==
    << "Frequently Used", "Smileys & Emotion", "People & Body", "Animals & Nature",
       "Food & Drink", "Travel & Places", "Activities", "Objects", "Symbols", "Flags" >>

\* The Set the loop fills: the categories of the records, falsy ones skipped.
categoriesInData(data) ==
    { data[i].category : i \in {j \in 1..Len(data) : data[j].category /= ""} }

\* The categories in the order the dataset first shows them.
collectCategories_DiscoveryOrder(data) ==
    <<"Frequently Used">> \o
    SelectSeq([i \in 1..Len(data) |->
                  IF \E h \in 1..(i - 1) : data[h].category = data[i].category
                  THEN "" ELSE data[i].category],
              LAMBDA c : c /= "")

collectCategories(data) ==
    SelectSeq(orderedCategories,
              LAMBDA cat : cat = "Frequently Used" \/ cat \in categoriesInData(data))

InitCategories ==
    /\ mode = "categories"
    /\ emojiData \in SeqsUpTo(CategoryRecordKinds, MaxCatLen)
    /\ persisted = <<>>
    /\ usageCount = <<>>
    /\ InitCommon
    /\ NoPopup
    /\ NoTone
    /\ NoHost

\* A call collectCategories(emojiData).
CollectCategories ==
    /\ mode = "categories"
    /\ lastOp = "init"
    /\ categories' = collectCategories(emojiData)
    /\ lastOp' = "collectCategories"
    /\ UNCHANGED <<emojiData, mode, query, results, filtered, usageCount, saveTimers,
                   persisted, tracked, burstCalls, burstWrites, burstMixed, frequent,
                   limit>>
    /\ UNCHANGED popupVars

NextCategories == CollectCategories

SpecCategories == InitCategories /\ [][NextCategories]_vars

(***************************************************************************)
(* Claims about collectCategories                                          *)
(***************************************************************************)
\* The place of a category in the predefined list (0: not in it).
PredefinedIndex(c) ==
    IF \E i \in 1..Len(orderedCategories) : orderedCategories[i] = c
    THEN CHOOSE i \in 1..Len(orderedCategories) : orderedCategories[i] = c
    ELSE 0

OccursInData(c) == \E i \in 1..Len(emojiData) : emojiData[i].category = c

\* C8: collectCategories returns "Frequently Used" first, then exactly the
\* predefined categories that some record has, in the predefined order.
C8_CategoriesPredefinedOrder ==
    lastOp = "collectCategories" =>
        /\ Len(categories) >= 1
        /\ categories[1] = "Frequently Used"
        /\ \A i \in 2..Len(categories) :
               PredefinedIndex(categories[i]) > 1 /\ OccursInData(categories[i])
        /\ \A c \in {emojiData[i].category : i \in 1..Len(emojiData)} :
               PredefinedIndex(c) > 1 => \E i \in 2..Len(categories) : categories[i] = c
        /\ \A i, j \in 1..Len(categories) :
               i < j => PredefinedIndex(categories[i]) < PredefinedIndex(categories[j])

\* C8 witness: a dataset that shows "Flags" before "Smileys & Emotion" and has
\* a record of category "Other".
C8_Witness ==
    /\ lastOp = "collectCategories"
    /\ Len(emojiData) = 3
    /\ emojiData[1].category = "Flags"
    /\ emojiData[2].category = "Other"
    /\ emojiData[3].category = "Smileys & Emotion"
    /\ categories = <<"Frequently Used", "Smileys & Emotion", "Flags">>

(***************************************************************************)
(* The popup: EmojiRenderer, CategoryManager and the scroll view           *)
(***************************************************************************)
EMOJIS_PER_ROW == 10
CATEGORY_SCROLL_THRESHOLD == 30
CATEGORY_SCROLL_DELAY == 50
SCROLL_GUARD_MS == 150
SCROLL_PADDING == 10

\* Geometry the stylesheet and the popup size give: pixels of a category
\* header, of a row of emoji, and of the scroll view's page.
HEADER_HEIGHT == 20
ROW_HEIGHT == 40
PAGE_SIZE == 60

\* Outcomes of get_allocation_box() on a header that clear() destroyed: the
\* call throws, or answers the last allocation, or an empty one.
DisposedOutcomes == {"throws", "last", "zero"}

\* The outcomes a read of the registered headers can have.
allocationOutcomes(alive) == IF alive THEN {"last"} ELSE DisposedOutcomes

\* A mutant of groupLoop: every record opens a group of its own.
groupLoop_NoMerge(data, i, acc) ==
    acc \o [k \in 1..Len(data) |->
               <<IF data[k].category = "" THEN "Other" ELSE data[k].category,
                 <<data[k]>> >>]

\* categorizedEmojis of renderEmojisByCategory: category -> records, keys in
\* the order they are first set.
RECURSIVE groupLoop(_, _, _)
groupLoop(data, i, acc) ==
    IF i > Len(data) THEN acc
    ELSE LET category == IF data[i].category = "" THEN "Other" ELSE data[i].category
             members == mapGetOr(acc, category, <<>>)
         IN  groupLoop(data, i + 1, mapSet(acc, category, Append(members, data[i])))

categorizedEmojis(data, usage) ==
    LET frequentlyUsed == getFrequentlyUsed(usage, data, GROUPED_LIMIT)
    IN  groupLoop(data, 1,
                  IF Len(frequentlyUsed) > 0
                  THEN <<<<"Frequently Used", frequentlyUsed>>>> ELSE <<>>)

\* Rows a list of n emoji takes.
rowsOf(n) == (n + EMOJIS_PER_ROW - 1) \div EMOJIS_PER_ROW

\* The grid after renderEmojisByCategory: per non-empty category a header,
\* then its rows.  Answers the headers <<category, y1>> and the height.
RECURSIVE layoutLoop(_, _, _, _)
layoutLoop(groups, i, y, acc) ==
    IF i > Len(groups) THEN [headers |-> acc, height |-> y]
    ELSE IF Len(groups[i][2]) = 0 THEN layoutLoop(groups, i + 1, y, acc)
    ELSE layoutLoop(groups, i + 1,
                    y + HEADER_HEIGHT + rowsOf(Len(groups[i][2])) * ROW_HEIGHT,
                    Append(acc, <<groups[i][1], y>>))

groupedLayout(data, usage) == layoutLoop(categorizedEmojis(data, usage), 1, 0, <<>>)

\* The grid after renderEmojis(results): rows only.
flatLayout(found) == [headers |-> <<>>, height |-> rowsOf(Len(found)) * ROW_HEIGHT]

\* Largest value the adjustment takes: upper - page_size, not below lower.
maxScroll(height) == Max(0, height - PAGE_SIZE)

clampScroll(v, height) == Max(0, Min(v, maxScroll(height)))

\* updateCategoryStates: the buttons that carry 'active' afterwards.
updateCategoryStates(buttons, current) ==
    {buttons[i] : i \in {j \in 1..Len(buttons) : buttons[j] = current}}

\* y1 of a registered section, or -1 when get_allocation_box() throws.
sectionY(entry, alive, outcome) ==
    IF alive \/ outcome = "last" THEN entry[2]
    ELSE IF outcome = "zero" THEN 0
    ELSE -1

\* The loop of #onScroll; "" stands for null, and minDistance is Infinity
\* exactly while activeCategory is null.
RECURSIVE onScrollLoop(_, _, _, _, _, _, _)
onScrollLoop(sections, i, scrollY, alive, outcome, minDistance, activeCategory) ==
    IF i > Len(sections) THEN activeCategory
    ELSE LET y == sectionY(sections[i], alive, outcome)
             distance == scrollY - y
         IN  IF /\ y >= 0
                /\ y <= scrollY + CATEGORY_SCROLL_THRESHOLD
                /\ distance >= 0
                /\ (activeCategory = "" \/ distance < minDistance)
             THEN onScrollLoop(sections, i + 1, scrollY, alive, outcome,
                               distance, sections[i][1])
             ELSE onScrollLoop(sections, i + 1, scrollY, alive, outcome,
                               minDistance, activeCategory)

\* A mutant of onScroll: the first registered section is taken.
onScroll_First(sections, scrollY, alive, outcome, flag, current) ==
    IF flag \/ sections = <<>> THEN current ELSE sections[1][1]

\* #onScroll: the category that is current afterwards.
onScroll(sections, scrollY, alive, outcome, flag, current) ==
    IF flag THEN current
    ELSE LET activeCategory == onScrollLoop(sections, 1, scrollY, alive, outcome, 0, "")
         IN  IF activeCategory /= "" /\ activeCategory /= current
             THEN activeCategory ELSE current

\* Datasets, stored usage and queries the popup is exercised on.
MaxPopupLen == 2
MaxPopupTimers == 2
PopupTickMs == 50
ScrollStep == 30

PopupRecordKinds ==
    { EmojiRecord(HEART, <<98>>, "Symbols", <<>>, <<>>),
      EmojiRecord(THUMBS, <<97>>, "", <<>>, <<>>) }

PopupDatasets == SeqsUpTo(PopupRecordKinds, MaxPopupLen)

PopupStoredMaps == { <<>>, << <<HEART, 2>>, <<GRINNING, 1>> >> }

PopupQueries == { <<>>, <<98>> }

ScrollPositions == {v \in 0..maxScroll(contentHeight) : v % ScrollStep = 0}

otherVars == <<results, filtered, saveTimers, persisted, tracked, burstCalls,
               burstWrites, burstMixed, frequent, limit, categories, toneVars,
               hostVars>>

\* The popup after #buildPopup (tabs built, grouped view rendered, sections
\* registered) and #showPopup (the scroll view realized, its adjustment
\* connected to #onScroll), for a loaded dataset and stored usage.
BuiltView ==
    /\ categoryButtons = collectCategories(emojiData)
    /\ currentCategory = "Frequently Used"
    /\ activeButtons = updateCategoryStates(categoryButtons, currentCategory)
    /\ view = "grouped"
    /\ gridHeaders = groupedLayout(emojiData, usageCount).headers
    /\ contentHeight = groupedLayout(emojiData, usageCount).height
    /\ categorySections = gridHeaders
    /\ scrollValue = 0
    /\ programmaticScroll = FALSE
    /\ popupTimers = <<>>
    /\ clicked = ""
    /\ lastFire = <<>>
    /\ popupOpen = TRUE
    /\ searchText = <<>>
    /\ searchTimers = <<>>
    /\ searchTimeoutId = 0
    /\ searchRuns = 0
    /\ searchBurst = 0
    /\ searchRan = ""

BuiltPopup ==
    /\ mode = "popup"
    /\ usageCount = loadUsageData(persisted)
    /\ InitCommon
    /\ NoTone
    /\ NoHost
    /\ BuiltView

InitPopup ==
    /\ emojiData \in PopupDatasets
    /\ persisted \in PopupStoredMaps
    /\ BuiltPopup

\* A click on the tab of category: setCategory(category).
SetCategory(category) ==
    /\ mode = "popup"
    /\ popupOpen
    /\ \E i \in 1..Len(categoryButtons) : categoryButtons[i] = category
    /\ Len(popupTimers) < MaxPopupTimers
    /\ currentCategory' = category
    /\ activeButtons' = updateCategoryStates(categoryButtons, category)
    /\ popupTimers' = Append(popupTimers,
                             [kind |-> "scroll", category |-> category,
                              ms |-> CATEGORY_SCROLL_DELAY])
    /\ clicked' = category
    /\ searchRan' = ""
    /\ UNCHANGED searchVars
    /\ lastFire' = <<>>
    /\ UNCHANGED <<emojiData, mode, usageCount, query, lastOp, otherVars,
                   categoryButtons, categorySections, view, gridHeaders, contentHeight,
                   scrollValue, programmaticScroll>>

\* The user scrolls the grid to v: notify::value runs #onScroll.
UserScroll(v, outcome) ==
    /\ mode = "popup"
    /\ popupOpen
    /\ v /= scrollValue
    /\ scrollValue' = v
    /\ currentCategory' = onScroll(categorySections, v, view = "grouped", outcome,
                                   programmaticScroll, currentCategory)
    /\ activeButtons' = IF currentCategory' /= currentCategory
                        THEN updateCategoryStates(categoryButtons, currentCategory')
                        ELSE activeButtons
    /\ clicked' = ""
    /\ searchRan' = ""
    /\ UNCHANGED searchVars
    /\ lastFire' = <<>>
    /\ UNCHANGED <<emojiData, mode, usageCount, query, lastOp, otherVars,
                   categoryButtons, categorySections, view, gridHeaders, contentHeight,
                   programmaticScroll, popupTimers>>

\* The relayout after a render: the adjustment clamps its value to the new
\* content, and a changed value runs #onScroll.
afterRelayout(sections, alive, outcome, height) ==
    LET v == clampScroll(scrollValue, height)
    IN  [value |-> v,
         current |-> IF v = scrollValue THEN currentCategory
                     ELSE onScroll(sections, v, alive, outcome, programmaticScroll,
                                   currentCategory)]

\* #applyFilter(q): the flat view of the matches, or the grouped view.
applyFilter(q, outcome) ==
    /\ query' = q
    /\ LET grouped == q = <<>>
           layout == IF grouped THEN groupedLayout(emojiData, usageCount)
                     ELSE flatLayout(filterEmojis(q, emojiData))
           sections == IF grouped THEN layout.headers ELSE categorySections
           after == afterRelayout(sections, grouped, outcome, layout.height)
       IN  /\ view' = IF grouped THEN "grouped" ELSE "flat"
           /\ gridHeaders' = layout.headers
           /\ contentHeight' = layout.height
           /\ categorySections' = sections
           /\ scrollValue' = after.value
           /\ currentCategory' = after.current
    /\ activeButtons' = IF currentCategory' /= currentCategory
                        THEN updateCategoryStates(categoryButtons, currentCategory')
                        ELSE activeButtons
    /\ clicked' = ""
    /\ lastFire' = <<>>
    /\ UNCHANGED <<emojiData, mode, usageCount, lastOp, otherVars, categoryButtons,
                   programmaticScroll, popupTimers>>

\* The search callback runs with query q.
ApplyFilter(q, outcome) ==
    /\ mode = "popup"
    /\ applyFilter(q, outcome)
    /\ searchRan' = ""
    /\ UNCHANGED searchVars

\* The timeout that is dispatched next: the oldest one that is due.
dueTimer ==
    IF \E i \in 1..Len(popupTimers) : popupTimers[i].ms = 0
    THEN CHOOSE i \in 1..Len(popupTimers) :
             /\ popupTimers[i].ms = 0
             /\ \A j \in 1..(i - 1) : popupTimers[j].ms /= 0
    ELSE 0

\* The search timeout that is dispatched next.
dueSearchTimer ==
    IF \E i \in 1..Len(searchTimers) : searchTimers[i].ms = 0
    THEN CHOOSE i \in 1..Len(searchTimers) :
             /\ searchTimers[i].ms = 0
             /\ \A j \in 1..(i - 1) : searchTimers[j].ms /= 0
    ELSE 0

removeAt(seq, i) == SubSeq(seq, 1, i - 1) \o SubSeq(seq, i + 1, Len(seq))

\* The timeout setCategory added runs: it scrolls to the section, if any.
ScrollTimerFires(outcome) ==
    /\ mode = "popup"
    /\ dueTimer > 0
    /\ popupTimers[dueTimer].kind = "scroll"
    /\ LET category == popupTimers[dueTimer].category
           rest == removeAt(popupTimers, dueTimer)
           registered == mapHas(categorySections, category)
           y == IF registered
                THEN sectionY(<<category, mapGetOr(categorySections, category, 0)>>,
                              view = "grouped", outcome)
                ELSE -1
           target == Max(0, y - SCROLL_PADDING)
       IN  IF registered /\ y >= 0
           THEN /\ programmaticScroll' = TRUE
                /\ scrollValue' = clampScroll(target, contentHeight)
                /\ popupTimers' = Append(rest, [kind |-> "guard", category |-> category,
                                                ms |-> SCROLL_GUARD_MS])
                /\ lastFire' = [category |-> category, commands |-> 1,
                                sectionY |-> y, value |-> target]
           ELSE /\ programmaticScroll' = IF registered THEN FALSE ELSE programmaticScroll
                /\ scrollValue' = scrollValue
                /\ popupTimers' = rest
                /\ lastFire' = [category |-> category, commands |-> 0,
                                sectionY |-> y, value |-> scrollValue]
    /\ clicked' = ""
    /\ searchRan' = ""
    /\ UNCHANGED searchVars
    /\ UNCHANGED <<emojiData, mode, usageCount, query, lastOp, otherVars,
                   categoryButtons, activeButtons, currentCategory, categorySections,
                   view, gridHeaders, contentHeight>>

\* The timeout the scroll added runs: it clears #programmaticScroll.
GuardTimerFires ==
    /\ mode = "popup"
    /\ dueTimer > 0
    /\ popupTimers[dueTimer].kind = "guard"
    /\ programmaticScroll' = FALSE
    /\ popupTimers' = removeAt(popupTimers, dueTimer)
    /\ clicked' = ""
    /\ searchRan' = ""
    /\ UNCHANGED searchVars
    /\ lastFire' = <<>>
    /\ UNCHANGED <<emojiData, mode, usageCount, query, lastOp, otherVars,
                   categoryButtons, activeButtons, currentCategory, categorySections,
                   view, gridHeaders, contentHeight, scrollValue>>

\* Time passes while no timeout is due.
TickPopup ==
    /\ mode = "popup"
    /\ popupTimers /= <<>> \/ searchTimers /= <<>>
    /\ dueTimer = 0
    /\ dueSearchTimer = 0
    /\ popupTimers' = [i \in 1..Len(popupTimers) |->
                          [popupTimers[i] EXCEPT !.ms = Max(0, @ - PopupTickMs)]]
    /\ searchTimers' = [i \in 1..Len(searchTimers) |->
                           [searchTimers[i] EXCEPT !.ms = Max(0, @ - PopupTickMs)]]
    /\ clicked' = ""
    /\ searchRan' = ""
    /\ UNCHANGED <<popupOpen, searchText, searchTimeoutId, searchRuns, searchBurst>>
    /\ lastFire' = <<>>
    /\ UNCHANGED <<emojiData, mode, usageCount, query, lastOp, otherVars,
                   categoryButtons, activeButtons, currentCategory, categorySections,
                   view, gridHeaders, contentHeight, scrollValue, programmaticScroll>>

NextPopup ==
    \/ \E c \in {orderedCategories[i] : i \in 1..Len(orderedCategories)} : SetCategory(c)
    \/ \E v \in ScrollPositions, d \in allocationOutcomes(view = "grouped") :
           UserScroll(v, d)
    \/ \E q \in PopupQueries : \E d \in allocationOutcomes(q = <<>>) : ApplyFilter(q, d)
    \/ \E d \in allocationOutcomes(view = "grouped") : ScrollTimerFires(d)
    \/ GuardTimerFires
    \/ TickPopup

SpecPopup == InitPopup /\ [][NextPopup]_vars

(***************************************************************************)
(* The search entry: SearchManager.queueFilter, #hidePopup, #showPopup     *)
(***************************************************************************)
SEARCH_DEBOUNCE_MS == 120

\* Most search timeouts pending at once, and the texts typed.
MaxSearchTimers == 2

SearchTexts == { <<>>, <<32>>, <<32, 66>> }

\* A mutant of cancelPending: the pending timeout is left in place.
cancelPending_Keep(timers, id) == timers

\* GLib.source_remove(#searchTimeoutId), when the id is set.
cancelPending(timers, id) ==
    IF id /= 0 THEN SelectSeq(timers, LAMBDA t : t.id /= id) ELSE timers

\* The id GLib.timeout_add answers: one no pending source has.
freshId(timers) ==
    CHOOSE n \in 1..(Len(timers) + 1) :
        /\ \A i \in 1..Len(timers) : timers[i].id /= n
        /\ \A k \in 1..(n - 1) : \E i \in 1..Len(timers) : timers[i].id = k

\* queueFilter(): the pending timeout is removed and a new one is added.
queueFilter ==
    LET rest == cancelPending(searchTimers, searchTimeoutId)
        id == freshId(rest)
    IN  /\ Len(rest) < MaxSearchTimers
        /\ searchTimers' = Append(rest, [id |-> id, ms |-> SEARCH_DEBOUNCE_MS])
        /\ searchTimeoutId' = id
        /\ searchRuns' = 0
        /\ searchBurst' = IF searchTimers = <<>> THEN 1 ELSE 2

popupUnchanged ==
    UNCHANGED <<emojiData, mode, usageCount, query, lastOp, otherVars, categoryButtons,
                activeButtons, currentCategory, categorySections, view, gridHeaders,
                contentHeight, scrollValue, programmaticScroll, popupTimers>>

\* The user edits the search entry: 'text-changed' calls queueFilter().
TypeText(raw) ==
    /\ mode = "popup"
    /\ popupOpen
    /\ raw /= searchText
    /\ searchText' = raw
    /\ queueFilter
    /\ searchRan' = ""
    /\ clicked' = ""
    /\ lastFire' = <<>>
    /\ popupUnchanged
    /\ UNCHANGED popupOpen

\* queueFilter(true): the pending timeout is removed, the callback runs now.
QueueFilterImmediate(outcome) ==
    /\ mode = "popup"
    /\ popupOpen
    /\ searchTimers' = cancelPending(searchTimers, searchTimeoutId)
    /\ searchTimeoutId' = 0
    /\ applyFilter(getQuery(searchText), outcome)
    /\ searchRuns' = 1
    /\ searchRan' = "immediate"
    /\ UNCHANGED <<popupOpen, searchText, searchBurst>>

\* A search timeout is due: it clears the id and runs the callback with the
\* query read now.
SearchTimerFires(outcome) ==
    /\ mode = "popup"
    /\ dueSearchTimer > 0
    /\ searchTimers' = removeAt(searchTimers, dueSearchTimer)
    /\ searchTimeoutId' = 0
    /\ applyFilter(getQuery(searchText), outcome)
    /\ searchRuns' = searchRuns + 1
    /\ searchRan' = "timer"
    /\ UNCHANGED <<popupOpen, searchText, searchBurst>>

\* #hidePopup: SearchManager.clear() empties the entry, and an entry that was
\* not empty emits 'text-changed'.
HidePopup ==
    /\ mode = "popup"
    /\ popupOpen
    /\ popupOpen' = FALSE
    /\ searchText' = <<>>
    /\ IF searchText /= <<>> THEN queueFilter
       ELSE UNCHANGED <<searchTimers, searchTimeoutId, searchRuns, searchBurst>>
    /\ searchRan' = ""
    /\ clicked' = ""
    /\ lastFire' = <<>>
    /\ popupUnchanged

\* #showPopup on a popup that is built.
ShowPopup ==
    /\ mode = "popup"
    /\ ~popupOpen
    /\ popupOpen' = TRUE
    /\ searchRan' = ""
    /\ clicked' = ""
    /\ lastFire' = <<>>
    /\ popupUnchanged
    /\ UNCHANGED <<searchText, searchTimers, searchTimeoutId, searchRuns, searchBurst>>

InitSearch ==
    /\ emojiData = << EmojiRecord(HEART, <<98>>, "Symbols", <<>>, <<>>),
                      EmojiRecord(THUMBS, <<97>>, "", <<>>, <<>>) >>
    /\ persisted \in PopupStoredMaps
    /\ BuiltPopup

NextSearch ==
    \/ \E raw \in SearchTexts : TypeText(raw)
    \/ \E d \in allocationOutcomes(getQuery(searchText) = <<>>) : QueueFilterImmediate(d)
    \/ \E d \in allocationOutcomes(getQuery(searchText) = <<>>) : SearchTimerFires(d)
    \/ HidePopup
    \/ ShowPopup
    \/ \E c \in {orderedCategories[i] : i \in 1..Len(orderedCategories)} : SetCategory(c)
    \/ \E d \in allocationOutcomes(view = "grouped") : ScrollTimerFires(d)
    \/ GuardTimerFires
    \/ TickPopup

SpecSearch == InitSearch /\ [][NextSearch]_vars

(***************************************************************************)
(* The grouped render on its own                                           *)
(***************************************************************************)
InitGrouped ==
    /\ mode = "grouped"
    /\ emojiData \in SeqsUpTo(CategoryRecordKinds, MaxCatLen)
    /\ persisted \in PopupStoredMaps
    /\ usageCount = loadUsageData(persisted)
    /\ InitCommon
    /\ NoPopup
    /\ NoTone
    /\ NoHost

\* #renderEmojisByCategory: clearSections(), then the grouped render, whose
\* callback registers each header.
RenderEmojisByCategory ==
    /\ mode = "grouped"
    /\ view = "none"
    /\ view' = "grouped"
    /\ gridHeaders' = groupedLayout(emojiData, usageCount).headers
    /\ contentHeight' = groupedLayout(emojiData, usageCount).height
    /\ categorySections' = gridHeaders'
    /\ UNCHANGED <<emojiData, mode, usageCount, query, lastOp, otherVars, categoryButtons,
                   activeButtons, currentCategory, scrollValue, programmaticScroll,
                   popupTimers, clicked, lastFire, searchVars, searchRan>>

NextGrouped == RenderEmojisByCategory

SpecGrouped == InitGrouped /\ [][NextGrouped]_vars

(***************************************************************************)
(* SkinToneSelector.#applyTone                                             *)
(***************************************************************************)
\* The modifiers of SKIN_TONES, U+1F3FB to U+1F3FF, as UTF-16; the tone
\* 'Default' has the empty modifier.
LIGHT == <<55356, 57339>>
MEDIUM_LIGHT == <<55356, 57340>>
MEDIUM == <<55356, 57341>>
MEDIUM_DARK == <<55356, 57342>>
DARK == <<55356, 57343>>

SKIN_TONES == << <<>>, LIGHT, MEDIUM_LIGHT, MEDIUM, MEDIUM_DARK, DARK >>

VARIATION_SELECTOR == <<65039>>

\* The first place pat occurs in s (0: nowhere).
indexOf(s, pat) ==
    IF includes(s, pat)
    THEN CHOOSE i \in 1..(Len(s) - Len(pat) + 1) :
             /\ SubSeq(s, i, i + Len(pat) - 1) = pat
             /\ \A h \in 1..(i - 1) : SubSeq(s, h, h + Len(pat) - 1) /= pat
    ELSE 0

\* s.replace(pat, rep) with a string pattern: the first occurrence only.
replaceFirst(s, pat, new) ==
    LET i == indexOf(s, pat)
    IN  IF i = 0 THEN s
        ELSE SubSeq(s, 1, i - 1) \o new \o SubSeq(s, i + Len(pat), Len(s))

\* The loop that removes the existing modifiers, one tone after the other.
RECURSIVE stripTones(_, _)
stripTones(emoji, k) ==
    IF k > Len(SKIN_TONES) THEN emoji
    ELSE stripTones(IF SKIN_TONES[k] /= <<>>
                    THEN replaceFirst(emoji, SKIN_TONES[k], <<>>) ELSE emoji,
                    k + 1)

\* A mutant of applyTone: only a variation selector that ends the glyph
\* takes the modifier before it.
applyTone_TrailingOnly(emoji, modifier) ==
    IF modifier = <<>> THEN emoji
    ELSE LET baseEmoji == stripTones(emoji, 1)
         IN  IF baseEmoji /= <<>> /\ baseEmoji[Len(baseEmoji)] = 65039
             THEN SubSeq(baseEmoji, 1, Len(baseEmoji) - 1) \o modifier
                      \o VARIATION_SELECTOR
             ELSE baseEmoji \o modifier

\* A mutant of applyTone: the existing modifiers are kept.
applyTone_NoStrip(emoji, modifier) ==
    IF modifier = <<>> THEN emoji
    ELSE IF includes(emoji, VARIATION_SELECTOR)
         THEN replaceFirst(emoji, VARIATION_SELECTOR, modifier \o VARIATION_SELECTOR)
         ELSE emoji \o modifier

applyTone(emoji, modifier) ==
    IF modifier = <<>> THEN emoji
    ELSE LET baseEmoji == stripTones(emoji, 1)
         IN  IF includes(baseEmoji, VARIATION_SELECTOR)
             THEN replaceFirst(baseEmoji, VARIATION_SELECTOR,
                               modifier \o VARIATION_SELECTOR)
             ELSE baseEmoji \o modifier

\* Glyphs the tones are applied to: plain ones, one with a variation
\* selector, a ZWJ sequence, one that carries a modifier, one that carries
\* the same modifier twice, and two with a variation selector that is not
\* the last unit (man detective, heart on fire).
POINT_UP == <<9757, 65039>>
WAVE == <<55357, 56395>>
ZWJ == <<8205>>
DETECTIVE == <<55357, 56693, 65039>>

ToneGlyphs ==
    { THUMBS, WAVE, POINT_UP, HEART,
      WAVE \o ZWJ \o POINT_UP,
      THUMBS \o MEDIUM,
      WAVE \o DARK \o ZWJ \o THUMBS \o DARK,
      DETECTIVE \o ZWJ \o <<9794, 65039>>,
      HEART \o ZWJ \o <<55357, 56613>> }

\* Most tones applied in a row.
MaxTones == 2

InitTone ==
    /\ mode = "tone"
    /\ emojiData = <<>>
    /\ persisted = <<>>
    /\ usageCount = <<>>
    /\ InitCommon
    /\ NoPopup
    /\ NoHost
    /\ baseGlyph \in ToneGlyphs
    /\ tonedGlyph = baseGlyph
    /\ appliedTones = <<>>

\* A tone is chosen: #applyTone(emoji, modifier) on the glyph so far.
ApplyTone(modifier) ==
    /\ mode = "tone"
    /\ Len(appliedTones) < MaxTones
    /\ tonedGlyph' = applyTone(tonedGlyph, modifier)
    /\ appliedTones' = Append(appliedTones, modifier)
    /\ UNCHANGED <<emojiData, mode, query, results, filtered, usageCount, saveTimers,
                   persisted, tracked, burstCalls, burstWrites, burstMixed, lastOp,
                   frequent, limit, categories, baseGlyph, categoryButtons,
                   activeButtons, currentCategory, categorySections, view, gridHeaders,
                   contentHeight, scrollValue, programmaticScroll, popupTimers, clicked,
                   lastFire, searchVars, searchRan, hostVars>>

NextTone == \E k \in 1..Len(SKIN_TONES) : ApplyTone(SKIN_TONES[k])

SpecTone == InitTone /\ [][NextTone]_vars

(***************************************************************************)
(* The dataset loader (core/emojiData.js)                                  *)
(***************************************************************************)
JOY == <<55357, 56834>>
FIRE == <<55357, 56613>>

\* A value of the parsed JSON: undefined (the key is absent), a string, a
\* number or an array; s is the string, the number or the array's elements.
Undefined == [t |-> "undefined", s |-> <<>>]
Str(s) == [t |-> "string", s |-> s]
Num(n) == [t |-> "number", s |-> <<n>>]
Arr(s) == [t |-> "array", s |-> s]

\* An element of the parsed array: null, or an object with these keys.
NullEntry ==
    [null |-> TRUE, emoji |-> Undefined, description |-> Undefined,
     category |-> Undefined, aliases |-> Undefined, tags |-> Undefined]

Entry(e, d, c, a, t) ==
    [null |-> FALSE, emoji |-> e, description |-> d, category |-> c,
     aliases |-> a, tags |-> t]

\* !v for a value of the parsed JSON.
falsy(v) ==
    \/ v.t = "undefined"
    \/ v.t = "string" /\ v.s = <<>>
    \/ v.t = "number" /\ v.s = <<0>>

\* v ?? d
orDefault(v, d) == IF v.t = "undefined" THEN d ELSE v.s

\* The callback of data.filter: "keep", "drop", or "throws".  A glyph that is
\* a non-zero number passes every test before emoji.includes and has no such
\* method.
filterEntry(entry) ==
    IF entry.null \/ falsy(entry.emoji) THEN "drop"
    ELSE IF entry.emoji.t = "number" THEN "throws"
    ELSE LET emoji == entry.emoji.s
         IN  IF Len(emoji) = 1 /\ emoji[1] >= 65024 /\ emoji[1] <= 65039 THEN "drop"
             ELSE IF emoji = <<8205>> THEN "drop"
             ELSE IF emoji = <<65533>> \/ includes(emoji, <<65533>>) THEN "drop"
             ELSE "keep"

\* The callback of .map.
mapEntry(entry) ==
    EmojiRecord(entry.emoji.s,
                orDefault(entry.description, <<>>),
                orDefault(entry.category, "Other"),
                orDefault(entry.aliases, <<>>),
                orDefault(entry.tags, <<>>))

getFallbackEmojiData ==
    << EmojiRecord(GRINNING, <<103, 114, 105, 110, 110, 105, 110, 103, 32, 102, 97, 99, 101>>,
                   "Smileys & Emotion",
                   << <<103, 114, 105, 110, 110, 105, 110, 103>> >>,
                   << <<115, 109, 105, 108, 101>>,
                   <<104, 97, 112, 112, 121>> >>),
       EmojiRecord(JOY,
                   <<102, 97, 99, 101, 32, 119, 105, 116, 104, 32, 116, 101, 97, 114,
                     115, 32, 111, 102, 32, 106, 111, 121>>,
                   "Smileys & Emotion",
                   << <<106, 111, 121>> >>,
                   << <<102, 117, 110, 110, 121>>,
                   <<104, 97, 104, 97>> >>),
       EmojiRecord(HEART, <<114, 101, 100, 32, 104, 101, 97, 114, 116>>,
                   "Symbols",
                   << <<104, 101, 97, 114, 116>> >>,
                   << <<108, 111, 118, 101>> >>),
       EmojiRecord(THUMBS, <<116, 104, 117, 109, 98, 115, 32, 117, 112>>,
                   "People & Body",
                   << <<43, 49>> >>,
                   << <<97, 112, 112, 114, 111, 118, 101>>,
                   <<97, 102, 102, 105, 114, 109, 97, 116, 105, 118, 101>> >>),
       EmojiRecord(FIRE, <<102, 105, 114, 101>>, "Travel & Places",
                   << <<102, 105, 114, 101>> >>, << <<108, 105, 116>> >>) >>

\* What a call leaves: a returned value, or an exception.
Returns(v) == [threw |-> FALSE, value |-> v]
Throws == [threw |-> TRUE, value |-> <<>>]

\* loadEmojiJson(file): load_contents may fail by its flag or by an
\* exception, JSON.parse throws on text that is not JSON, data.filter is
\* missing when the text is JSON but no array, and the filter callback may
\* throw on an element.
loadEmojiJson(file) ==
    IF file.contents = "throws" THEN Throws
    ELSE IF file.contents = "fails" THEN Returns(getFallbackEmojiData)
    ELSE IF file.text = "invalid" THEN Throws
    ELSE IF file.text = "object" THEN Throws
    ELSE IF \E i \in 1..Len(file.data) : filterEntry(file.data[i]) = "throws"
    THEN Throws
    ELSE Returns([i \in 1..Len(SelectSeq(file.data, LAMBDA e : filterEntry(e) = "keep"))
                    |-> mapEntry(SelectSeq(file.data,
                                           LAMBDA e : filterEntry(e) = "keep")[i])])

\* A loader whose try has no catch.
loadEmojiData_NoCatch(file) ==
    IF file.exists THEN loadEmojiJson(file) ELSE Returns(getFallbackEmojiData)

\* loadEmojiData(directory), file being data/emoji.json in the directory.
loadEmojiData(file) ==
    IF file.exists /\ ~loadEmojiJson(file).threw
    THEN loadEmojiJson(file)
    ELSE Returns(getFallbackEmojiData)

\* Most elements of an enumerated emoji.json.
MaxFileLen == 3

\* Elements of an enumerated emoji.json: two valid ones (one with every key,
\* one with the glyph only), null, an object without glyph, glyphs that are a
\* lone variation selector, a lone joiner, a replacement character, text
\* holding a replacement character, and a number.
JsonEntries ==
    { Entry(Str(THUMBS), Str(<<97>>), Str("People & Body"), Arr(<< <<98>> >>),
            Arr(<< <<97>> >>)),
      Entry(Str(HEART), Undefined, Undefined, Undefined, Undefined),
      NullEntry,
      Entry(Undefined, Str(<<97>>), Str("Symbols"), Undefined, Undefined),
      Entry(Str(<<65039>>), Undefined, Str("Symbols"), Undefined, Undefined),
      Entry(Str(<<8205>>), Undefined, Undefined, Undefined, Undefined),
      Entry(Str(<<65533>>), Undefined, Undefined, Undefined, Undefined),
      Entry(Str(<<98, 65533>>), Undefined, Undefined, Undefined, Undefined),
      Entry(Num(5), Undefined, Str("Symbols"), Undefined, Undefined) }

\* The states data/emoji.json can be in: absent; present but unreadable
\* (load_contents failing either way); readable but no JSON; JSON but no
\* array; an array.
DatasetFiles ==
    { [exists |-> FALSE, contents |-> "ok", text |-> "array", data |-> <<>>],
      [exists |-> TRUE, contents |-> "throws", text |-> "array", data |-> <<>>],
      [exists |-> TRUE, contents |-> "fails", text |-> "array", data |-> <<>>],
      [exists |-> TRUE, contents |-> "ok", text |-> "invalid", data |-> <<>>],
      [exists |-> TRUE, contents |-> "ok", text |-> "object", data |-> <<>>] }
    \cup { [exists |-> TRUE, contents |-> "ok", text |-> "array", data |-> d] :
               d \in SeqsUpTo(JsonEntries, MaxFileLen) }

InitLoader ==
    /\ mode = "loader"
    /\ emojiData = <<>>
    /\ persisted = <<>>
    /\ usageCount = <<>>
    /\ InitCommon
    /\ NoPopup
    /\ NoTone
    /\ datasetFile \in DatasetFiles
    /\ loadThrew = FALSE
    /\ NoSelect
    /\ NoRows
    /\ NoExt

\* enable(): this.#emojiData = loadEmojiData(this.dir).
LoadEmojiData ==
    /\ mode = "loader"
    /\ lastOp = "init"
    /\ lastOp' = "loadEmojiData"
    /\ loadThrew' = loadEmojiData(datasetFile).threw
    /\ emojiData' = loadEmojiData(datasetFile).value
    /\ UNCHANGED <<mode, query, results, filtered, usageCount, saveTimers, persisted,
                   tracked, burstCalls, burstWrites, burstMixed, frequent, limit,
                   categories, categoryButtons, activeButtons, currentCategory,
                   categorySections, view, gridHeaders, contentHeight, scrollValue,
                   programmaticScroll, popupTimers, clicked, lastFire, searchVars,
                   searchRan, toneVars, datasetFile, selectVars, rowVars, extVars,
                   popupLedger>>

NextLoader == LoadEmojiData

SpecLoader == InitLoader /\ [][NextLoader]_vars

(***************************************************************************)
(* The selection flow: EmojiRenderer.#createEmojiButton, SkinToneSelector, *)
(* #handleEmojiSelected, ClipboardManager, PopupSizeManager                *)
(***************************************************************************)
PASTE_DELAY_MS == 100

\* An element of the parsed array that carries the key skin_tones: true.
EntryWithTones(e, d, c, a, t) ==
    [null |-> FALSE, emoji |-> e, description |-> d, category |-> c,
     aliases |-> a, tags |-> t, skin_tones |-> TRUE]

\* A record that carries skin_tones: true.
ToneRecord(e, d, c, a, t) ==
    [emoji |-> e, description |-> d, category |-> c, aliases |-> a, tags |-> t,
     skin_tones |-> TRUE]

\* item.skin_tones, undefined on a record without the key.
skinTones(item) == IF "skin_tones" \in DOMAIN item THEN item.skin_tones ELSE FALSE

\* The names of SKIN_TONES, by index.
TONE_NAMES ==
    << <<68, 101, 102, 97, 117, 108, 116>>, <<76, 105, 103, 104, 116>>, <<77, 101, 100, 105, 117, 109, 45, 76, 105, 103, 104, 116>>, <<77, 101, 100, 105, 117, 109>>, <<77, 101, 100, 105, 117, 109, 45, 68, 97, 114, 107>>, <<68, 97, 114, 107>> >>

POPUP_SIZE_MODES ==
    [compact |-> [width |-> 360, emojisPerRow |-> 7],
     default |-> [width |-> 480, emojisPerRow |-> 8],
     comfortable |-> [width |-> 600, emojisPerRow |-> 14]]

\* #calculateEmojisPerRow(width)
calculateEmojisPerRow(width) == Max(6, (width - 16) \div 44)

\* PopupSizeManager.getDimensions (the height plays no part here).
getDimensions(sizemode, width) ==
    IF sizemode = "custom"
    THEN [width |-> width, emojisPerRow |-> calculateEmojisPerRow(width)]
    ELSE IF sizemode \in DOMAIN POPUP_SIZE_MODES THEN POPUP_SIZE_MODES[sizemode]
    ELSE POPUP_SIZE_MODES["default"]

\* #getPopupDimensions with the manager of enable(): width (and height) only.
getPopupDimensions(sizemode, width) ==
    [width |-> getDimensions(sizemode, width).width]

\* The third argument #buildPopup gives the renderer, popupDims.emojisPerRow:
\* undefined on an object without the key, and then the parameter's default.
rendererSelector(popupDims) ==
    IF "emojisPerRow" \in DOMAIN popupDims THEN "number" ELSE "null"

\* The rows one list takes: a new row every EMOJIS_PER_ROW elements.
rowLoop(category, emojis) ==
    [r \in 1..rowsOf(Len(emojis)) |->
        [category |-> category,
         items |-> SubSeq(emojis, (r - 1) * EMOJIS_PER_ROW + 1,
                          Min(Len(emojis), r * EMOJIS_PER_ROW))]]

\* The rows of renderEmojis(emojis).
flatRows(emojis) == rowLoop("", emojis)

\* The rows of renderEmojisByCategory: those of each group, in Map order.
RECURSIVE groupRows(_, _)
groupRows(groups, i) ==
    IF i > Len(groups) THEN <<>>
    ELSE rowLoop(groups[i][1], groups[i][2]) \o groupRows(groups, i + 1)

groupedRows(data, usage) == groupRows(categorizedEmojis(data, usage), 1)

\* A constructor without the try of loadUsageData.
loadUsageDataOutcome_NoCatch(read, stored) ==
    IF read = "ok" THEN Returns(loadUsageData(stored)) ELSE Throws

\* new UsageTracker(settings): the Map is empty, then loadUsageData reads the
\* setting.  get_string may throw, JSON.parse throws on text that is no JSON,
\* Object.entries throws on null; the catch leaves an empty Map.
loadUsageDataOutcome(read, stored) ==
    IF read = "ok" THEN Returns(loadUsageData(stored)) ELSE Returns(<<>>)

\* saveUsageData where set_string may throw: what the setting holds after.
saveUsageDataOutcome(m, write, stored) ==
    IF write = "throws" THEN Returns(stored) ELSE Returns(saveUsageData(m))

\* Most selections made in one behaviour.
MaxSelections == 2

\* Most selections made through the tone selector's popup.
MaxToneChoices == 1

selectionCap == IF mode = "tonechoice" THEN MaxToneChoices ELSE MaxSelections

SelectModes == {"select", "tonechoice", "session"}

\* #hidePopup: the search entry is cleared (an entry that was not empty emits
\* 'text-changed'), the popup goes.
hidePopup ==
    /\ popupOpen' = FALSE
    /\ searchText' = <<>>
    /\ IF searchText /= <<>> THEN queueFilter
       ELSE UNCHANGED <<searchTimers, searchTimeoutId, searchRuns, searchBurst>>

\* A handler that a selection runs a part of: what it leaves alone.
selectUnchanged ==
    UNCHANGED <<emojiData, mode, query, results, filtered, persisted, tracked,
                burstCalls, burstWrites, burstMixed, frequent, limit, categories,
                categoryButtons, activeButtons, currentCategory, categorySections,
                view, gridHeaders, contentHeight, scrollValue, programmaticScroll,
                popupTimers, clicked, lastFire, searchRan, loaderVars, backend,
                pasteOnSelect, pastes, skinToneSelector, failedWrites, rowVars,
                extVars, popupLedger>>

\* #handleEmojiSelected(item): copy, trackUsage, toast, pasteEmoji,
\* #togglePopup(true).
handleEmojiSelected(item) ==
    /\ clipboard' = item.emoji
    /\ usageCount' = trackUsageMap(usageCount, item.emoji)
    /\ saveTimers' = Append(saveTimers, SAVE_DELAY_MS)
    /\ toast' = item.emoji \o <<32>>
                    \o (IF item.description /= <<>> THEN item.description
                        ELSE <<99, 111, 112, 105, 101, 100>>)
    /\ pasteTimers' = IF pasteOnSelect THEN Append(pasteTimers, PASTE_DELAY_MS)
                      ELSE pasteTimers
    /\ IF popupOpen THEN hidePopup ELSE UNCHANGED searchVars
    /\ selected' = <<item>>
    /\ selections' = selections + 1

\* What a handler that selects nothing leaves alone besides selectUnchanged.
noSelection ==
    /\ selected' = <<>>
    /\ UNCHANGED <<clipboard, usageCount, saveTimers, toast, pasteTimers, searchVars,
                   selections>>

\* The datasets of the selection flow: a glyph with skin_tones and one
\* without; one glyph with nothing but the glyph.
SelectFiles ==
    { [exists |-> TRUE, contents |-> "ok", text |-> "array",
       data |-> << EntryWithTones(Str(THUMBS), Str(<<98>>), Str("People & Body"),
                                  Undefined, Undefined),
                   Entry(Str(HEART), Undefined, Str("Symbols"), Undefined, Undefined) >>],
      [exists |-> TRUE, contents |-> "ok", text |-> "array",
       data |-> << Entry(Str(HEART), Undefined, Undefined, Undefined, Undefined) >>] }

\* The extension before enable().
InitSelect ==
    /\ mode = "select"
    /\ emojiData = <<>>
    /\ usageCount = <<>>
    /\ backend \in {"ok", "throws", "invalid", "null"}
    /\ persisted \in (IF backend = "ok" THEN PopupStoredMaps ELSE {<<>>})
    /\ InitCommon
    /\ NoPopup
    /\ NoTone
    /\ datasetFile \in SelectFiles
    /\ loadThrew = FALSE
    /\ pasteOnSelect \in BOOLEAN
    /\ clipboard = <<>>
    /\ pasteTimers = <<>>
    /\ pastes = 0
    /\ toast = <<>>
    /\ skinToneSelector = "null"
    /\ selectorCurrent = <<>>
    /\ selectorVisible = FALSE
    /\ selected = <<>>
    /\ activated = 0
    /\ handlerThrew = FALSE
    /\ selections = 0
    /\ failedWrites = 0
    /\ NoRows
    /\ NoExt

\* A popup whose renderer was given a SkinToneSelector (constructed visible,
\* with no current glyph), over records that carry skin_tones.
InitToneChoice ==
    /\ mode = "tonechoice"
    /\ emojiData = << ToneRecord(THUMBS, <<98>>, "People & Body", <<>>, <<>>),
                      EmojiRecord(HEART, <<>>, "Symbols", <<>>, <<>>) >>
    /\ persisted \in PopupStoredMaps
    /\ usageCount = loadUsageData(persisted)
    /\ InitCommon
    /\ BuiltView
    /\ NoTone
    /\ NoLoader
    /\ NoExt
    /\ backend = "ok"
    /\ pasteOnSelect \in BOOLEAN
    /\ clipboard = <<>>
    /\ pasteTimers = <<>>
    /\ pastes = 0
    /\ toast = <<>>
    /\ skinToneSelector = "selector"
    /\ selectorCurrent = <<>>
    /\ selectorVisible = TRUE
    /\ selected = <<>>
    /\ activated = 0
    /\ handlerThrew = FALSE
    /\ selections = 0
    /\ failedWrites = 0
    /\ sizeMode = "default"
    /\ customWidth = 0
    /\ gridRows = groupedRows(emojiData, usageCount)

\* enable(): the dataset is loaded and the usage tracker constructed.
Enable ==
    /\ mode = "select"
    /\ lastOp = "init"
    /\ lastOp' = "enable"
    /\ emojiData' = loadEmojiData(datasetFile).value
    /\ loadThrew' = loadEmojiData(datasetFile).threw
    /\ usageCount' = loadUsageDataOutcome(backend, persisted).value
    /\ handlerThrew' = loadUsageDataOutcome(backend, persisted).threw
    /\ UNCHANGED <<mode, query, results, filtered, saveTimers, persisted, tracked,
                   burstCalls, burstWrites, burstMixed, frequent, limit, categories,
                   categoryButtons, activeButtons, currentCategory, categorySections,
                   view, gridHeaders, contentHeight, scrollValue, programmaticScroll,
                   popupTimers, clicked, lastFire, searchVars, searchRan, toneVars,
                   datasetFile, backend, clipboard, pasteOnSelect, pasteTimers, pastes,
                   toast, skinToneSelector, selectorCurrent, selectorVisible, selected,
                   activated, selections, failedWrites, rowVars, extVars,
                   popupLedger>>

\* #buildPopup under the size settings (sizemode, width), with `built` popups
\* on the stage before it: the tabs, the renderer and the first grouped
\* render.
buildPopupWith(sizemode, width, built) ==
    /\ categoryButtons' = collectCategories(emojiData)
    /\ currentCategory' = "Frequently Used"
    /\ activeButtons' = updateCategoryStates(categoryButtons', currentCategory')
    /\ view' = "grouped"
    /\ gridHeaders' = groupedLayout(emojiData, usageCount).headers
    /\ contentHeight' = groupedLayout(emojiData, usageCount).height
    /\ categorySections' = gridHeaders'
    /\ scrollValue' = 0
    /\ programmaticScroll' = FALSE
    /\ skinToneSelector' = rendererSelector(getPopupDimensions(sizemode, width))
    /\ gridRows' = groupedRows(emojiData, usageCount)
    /\ popups' = built + 1
    /\ builtWidth' = getPopupDimensions(sizemode, width).width

\* #buildPopup under the settings as they are.
buildPopup == buildPopupWith(sizeMode, customWidth, popups)

builtUnchanged ==
    UNCHANGED <<categoryButtons, currentCategory, activeButtons, view, gridHeaders,
                contentHeight, categorySections, scrollValue, programmaticScroll,
                skinToneSelector, gridRows, popupLedger>>

\* #togglePopup() from the panel button or the shortcut: a popup that is
\* hidden or not built is shown (and built first), a visible one is hidden.
TogglePopup ==
    /\ mode \in SelectModes
    /\ mode = "select" => lastOp /= "init"
    /\ mode = "session" => extEnabled /\ (button \/ wmBindings > 0)
    /\ lastOp' = "toggle"
    /\ IF popupOpen
       THEN hidePopup /\ builtUnchanged
       ELSE /\ IF view = "none" THEN buildPopup ELSE builtUnchanged
            /\ popupOpen' = TRUE
            /\ UNCHANGED <<searchText, searchTimers, searchTimeoutId, searchRuns,
                           searchBurst>>
    /\ selected' = <<>>
    /\ activated' = 0
    /\ handlerThrew' = FALSE
    /\ UNCHANGED <<emojiData, mode, query, results, filtered, usageCount, saveTimers,
                   persisted, tracked, burstCalls, burstWrites, burstMixed, frequent,
                   limit, categories, popupTimers, clicked, lastFire, searchRan,
                   toneVars, loaderVars, backend, clipboard, pasteOnSelect,
                   pasteTimers, pastes, toast, selectorCurrent, selectorVisible,
                   selections, failedWrites, sizeMode, customWidth, extVars>>

\* The close button: #togglePopup(true).
CloseButton ==
    /\ mode \in SelectModes
    /\ popupOpen
    /\ lastOp' = "close"
    /\ hidePopup
    /\ selected' = <<>>
    /\ activated' = 0
    /\ handlerThrew' = FALSE
    /\ UNCHANGED <<clipboard, usageCount, saveTimers, toast, pasteTimers, selections,
                   selectorCurrent, selectorVisible, toneVars>>
    /\ selectUnchanged

\* SkinToneSelector.show(item)
showSelector(item) ==
    IF skinTones(item)
    THEN selectorCurrent' = <<item>> /\ selectorVisible' = TRUE
    ELSE selectorCurrent' = <<>> /\ selectorVisible' = FALSE

\* A click on the grid button of emojiData[i], with the handler
\* #createEmojiButton connected for it.
ActivateElement(i) ==
    /\ mode \in SelectModes
    /\ popupOpen
    /\ view = "grouped"
    /\ i \in 1..Len(emojiData)
    /\ selections < selectionCap
    /\ lastOp' = "activate"
    /\ activated' = i
    /\ handlerThrew' = FALSE
    /\ IF skinTones(emojiData[i]) /\ skinToneSelector /= "null"
       THEN showSelector(emojiData[i]) /\ noSelection
       ELSE /\ handleEmojiSelected(emojiData[i])
            /\ UNCHANGED <<selectorCurrent, selectorVisible>>
    /\ UNCHANGED toneVars
    /\ selectUnchanged

\* A variant that is the current record itself.
toneVariant_Current(current, k) == current

\* The record the tone button of SKIN_TONES[k] makes of the current one: a
\* copy with the derived glyph and the tone's name after the description.
toneVariant(current, k) ==
    [current EXCEPT
        !.emoji = applyTone(current.emoji, SKIN_TONES[k]),
        !.description = current.description
                            \o (IF SKIN_TONES[k] /= <<>>
                                THEN <<32, 40>> \o TONE_NAMES[k] \o <<41>>
                                ELSE <<>>)]

\* A click on the selector's button of SKIN_TONES[k]: the variant of the
\* current glyph goes to the callback, the selector hides.
ChooseTone(k) ==
    /\ mode \in SelectModes
    /\ skinToneSelector = "selector"
    /\ selectorVisible
    /\ selections < selectionCap
    /\ lastOp' = "tone"
    /\ activated' = 0
    /\ handlerThrew' = FALSE
    /\ appliedTones' = <<SKIN_TONES[k]>>
    /\ IF selectorCurrent /= <<>>
       THEN LET current == selectorCurrent[1]
                variant == toneVariant(current, k)
            IN  /\ handleEmojiSelected(variant)
                /\ baseGlyph' = current.emoji
                /\ tonedGlyph' = variant.emoji
       ELSE /\ noSelection
            /\ baseGlyph' = <<>>
            /\ tonedGlyph' = <<>>
    /\ selectorCurrent' = <<>>
    /\ selectorVisible' = FALSE
    /\ selectUnchanged

\* Esc in the search entry: its key-press handler empties the entry and
\* stops the event.
KeyEscape ==
    /\ mode \in SelectModes
    /\ popupOpen
    /\ lastOp' = "escape"
    /\ searchText' = <<>>
    /\ IF searchText /= <<>> THEN queueFilter
       ELSE UNCHANGED <<searchTimers, searchTimeoutId, searchRuns, searchBurst>>
    /\ selected' = <<>>
    /\ activated' = 0
    /\ handlerThrew' = FALSE
    /\ UNCHANGED <<popupOpen, clipboard, usageCount, saveTimers, toast, pasteTimers,
                   selections, selectorCurrent, selectorVisible, toneVars>>
    /\ selectUnchanged

\* A button press on the stage outside the popup: #showPopup connects no
\* handler for it.
ClickOutside ==
    /\ mode \in SelectModes
    /\ popupOpen
    /\ lastOp' = "clickOutside"
    /\ selected' = <<>>
    /\ activated' = 0
    /\ handlerThrew' = FALSE
    /\ UNCHANGED <<searchVars, clipboard, usageCount, saveTimers, toast, pasteTimers,
                   selections, selectorCurrent, selectorVisible, toneVars>>
    /\ selectUnchanged

\* The oldest save timeout is due: saveUsageData, set_string going as write says.
SaveFires(write) ==
    /\ mode \in SelectModes
    /\ saveTimers /= <<>>
    /\ Head(saveTimers) = 0
    /\ \A i \in 1..Len(staleSaves) : staleSaves[i].ms > 0
    /\ saveTimers' = Tail(saveTimers)
    /\ persisted' = saveUsageDataOutcome(usageCount, write, persisted).value
    /\ handlerThrew' = saveUsageDataOutcome(usageCount, write, persisted).threw
    /\ failedWrites' = IF write = "throws" THEN failedWrites + 1 ELSE failedWrites
    /\ lastOp' = IF write = "throws" THEN "saveFailed" ELSE "save"
    /\ selected' = <<>>
    /\ activated' = 0
    /\ UNCHANGED <<emojiData, mode, query, results, filtered, usageCount, tracked,
                   burstCalls, burstWrites, burstMixed, frequent, limit, categories,
                   categoryButtons, activeButtons, currentCategory, categorySections,
                   view, gridHeaders, contentHeight, scrollValue, programmaticScroll,
                   popupTimers, clicked, lastFire, searchVars, searchRan, toneVars,
                   loaderVars, backend, clipboard, pasteOnSelect, pasteTimers, pastes,
                   toast, skinToneSelector, selectorCurrent, selectorVisible,
                   selections, rowVars, extVars, popupLedger>>

\* The oldest paste timeout is due: its callback tries the paste methods.
PasteFires ==
    /\ mode \in SelectModes
    /\ pasteTimers /= <<>>
    /\ Head(pasteTimers) = 0
    /\ pasteTimers' = Tail(pasteTimers)
    /\ pastes' = pastes + 1
    /\ lastOp' = "paste"
    /\ selected' = <<>>
    /\ activated' = 0
    /\ handlerThrew' = FALSE
    /\ UNCHANGED <<emojiData, mode, query, results, filtered, usageCount, saveTimers,
                   persisted, tracked, burstCalls, burstWrites, burstMixed, frequent,
                   limit, categories, categoryButtons, activeButtons, currentCategory,
                   categorySections, view, gridHeaders, contentHeight, scrollValue,
                   programmaticScroll, popupTimers, clicked, lastFire, searchVars,
                   searchRan, toneVars, loaderVars, backend, clipboard, pasteOnSelect,
                   toast, skinToneSelector, selectorCurrent, selectorVisible,
                   selections, failedWrites, rowVars, extVars, popupLedger>>

\* Time passes while no timeout is due.
TickSelect ==
    /\ mode \in SelectModes
    /\ saveTimers /= <<>> \/ pasteTimers /= <<>>
    /\ \A i \in 1..Len(saveTimers) : saveTimers[i] > 0
    /\ \A i \in 1..Len(pasteTimers) : pasteTimers[i] > 0
    /\ saveTimers' = [i \in 1..Len(saveTimers) |-> Max(0, saveTimers[i] - TickMs)]
    /\ pasteTimers' = [i \in 1..Len(pasteTimers) |->
                          Max(0, pasteTimers[i] - TickMs)]
    /\ lastOp' = "tick"
    /\ selected' = <<>>
    /\ activated' = 0
    /\ handlerThrew' = FALSE
    /\ UNCHANGED <<emojiData, mode, query, results, filtered, usageCount, persisted,
                   tracked, burstCalls, burstWrites, burstMixed, frequent, limit,
                   categories, categoryButtons, activeButtons, currentCategory,
                   categorySections, view, gridHeaders, contentHeight, scrollValue,
                   programmaticScroll, popupTimers, clicked, lastFire, searchVars,
                   searchRan, toneVars, loaderVars, backend, clipboard, pasteOnSelect,
                   pastes, toast, skinToneSelector, selectorCurrent, selectorVisible,
                   selections, failedWrites, rowVars, extVars, popupLedger>>

NextSelect ==
    \/ Enable
    \/ TogglePopup
    \/ CloseButton
    \/ \E i \in 1..Len(emojiData) : ActivateElement(i)
    \/ KeyEscape
    \/ ClickOutside
    \/ \E write \in {"ok", "throws"} : SaveFires(write)
    \/ PasteFires
    \/ TickSelect

SpecSelect == InitSelect /\ [][NextSelect]_vars

NextToneChoice ==
    \/ TogglePopup
    \/ CloseButton
    \/ \E i \in 1..Len(emojiData) : ActivateElement(i)
    \/ \E k \in 1..Len(SKIN_TONES) : ChooseTone(k)
    \/ \E write \in {"ok", "throws"} : SaveFires(write)
    \/ PasteFires
    \/ TickSelect

SpecToneChoice == InitToneChoice /\ [][NextToneChoice]_vars

(***************************************************************************)
(* The rows of the grid: EmojiRenderer.renderEmojis, renderEmojisByCategory *)
(***************************************************************************)
\* Most records of a dataset whose rows are rendered.
MaxRowItems == 15

\* Datasets of one category and of two alternating ones, every record
\* matching the query "b".
RowDatasets ==
    { Repeat(p, n) :
        p \in { << EmojiRecord(HEART, <<98>>, "Symbols", <<>>, <<>>) >>,
                << EmojiRecord(HEART, <<98>>, "Symbols", <<>>, <<>>),
                   EmojiRecord(THUMBS, <<98>>, "People & Body", <<>>, <<>>) >> },
        n \in 0..MaxRowItems }

\* The values of 'popup-width' tried with the custom size mode.
CustomWidths == {300, 480}

InitRows ==
    /\ mode = "rows"
    /\ emojiData \in RowDatasets
    /\ persisted \in PopupStoredMaps
    /\ usageCount = loadUsageData(persisted)
    /\ InitCommon
    /\ NoPopup
    /\ NoTone
    /\ NoLoader
    /\ NoExt
    /\ NoSelect
    /\ sizeMode \in {"compact", "default", "comfortable", "custom"}
    /\ customWidth \in (IF sizeMode = "custom" THEN CustomWidths ELSE {0})
    /\ gridRows = <<>>

rowsUnchanged ==
    UNCHANGED <<emojiData, mode, filtered, usageCount, saveTimers, persisted, tracked,
                burstCalls, burstWrites, burstMixed, lastOp, frequent, limit,
                categories, categoryButtons, activeButtons, currentCategory,
                categorySections, scrollValue, programmaticScroll, popupTimers,
                clicked, lastFire, searchVars, searchRan, toneVars, loaderVars,
                selectVars, sizeMode, customWidth, extVars, popupLedger>>

\* #applyFilter(q) with a query: renderEmojis(filterEmojis(q, emojiData)).
RenderEmojis(q) ==
    /\ mode = "rows"
    /\ view = "none"
    /\ q /= <<>>
    /\ query' = q
    /\ results' = filterEmojis(q, emojiData)
    /\ view' = "flat"
    /\ gridRows' = flatRows(results')
    /\ gridHeaders' = flatLayout(results').headers
    /\ contentHeight' = flatLayout(results').height
    /\ rowsUnchanged

\* renderEmojisByCategory(emojiData, usageTracker, ...) of the renderer.
RenderRowsByCategory ==
    /\ mode = "rows"
    /\ view = "none"
    /\ view' = "grouped"
    /\ gridRows' = groupedRows(emojiData, usageCount)
    /\ gridHeaders' = groupedLayout(emojiData, usageCount).headers
    /\ contentHeight' = groupedLayout(emojiData, usageCount).height
    /\ UNCHANGED <<query, results>>
    /\ rowsUnchanged

NextRows ==
    \/ RenderEmojis(<<98>>)
    \/ RenderRowsByCategory

SpecRows == InitRows /\ [][NextRows]_vars

(***************************************************************************)
(* Claims about the category controller                                    *)
(***************************************************************************)
\* Every timeout of the click has run.
Settled == popupTimers = <<>>

\* C9: once every transition has settled, exactly one tab carries the active
\* highlight, and it is the tab of the current category.
C9_ExactlyOneActiveTab ==
    (mode = "popup" /\ Settled) => activeButtons = {currentCategory}

RegisteredOffset(c) == mapGetOr(categorySections, c, -1)

\* C10: a tab click sets the current category and the highlight within the
\* handler, and its timeout issues exactly one scroll command, to the
\* registered header offset of the clicked category.
C10_ClickScrollsOnce ==
    /\ clicked /= "" =>
           currentCategory = clicked /\ activeButtons = {clicked}
    /\ lastFire /= <<>> =>
           /\ lastFire.commands = 1
           /\ mapHas(categorySections, lastFire.category)
           /\ lastFire.sectionY = RegisteredOffset(lastFire.category)

\* The category of the latest click whose timeouts are still pending: timeouts
\* run in click order, so it is that of the last scroll timeout, or else of
\* the last guard timeout.
ScrollTimerIndices == {i \in 1..Len(popupTimers) : popupTimers[i].kind = "scroll"}

LatestClicked ==
    IF ScrollTimerIndices /= {}
    THEN popupTimers[CHOOSE i \in ScrollTimerIndices :
                         \A j \in ScrollTimerIndices : j <= i].category
    ELSE popupTimers[Len(popupTimers)].category

\* C11: from a click on the tab of C until its guard window has elapsed
\* (the click's scroll or guard timeout is pending), scroll events leave the
\* current category equal to C.
C11_ScrollInWindowKeepsCategory ==
    (mode = "popup" /\ popupTimers /= <<>>) => currentCategory = LatestClicked

(***************************************************************************)
(* Claims about timers and closing                                         *)
(***************************************************************************)
GuardTimerIndices == {i \in 1..Len(popupTimers) : popupTimers[i].kind = "guard"}

\* C12: on each debounced channel (search filter, scroll-to-section, scroll
\* guard) at most one timer is pending at any time.
C12_OnePendingPerChannel ==
    mode = "popup" =>
        /\ Len(searchTimers) <= 1
        /\ Cardinality(ScrollTimerIndices) <= 1
        /\ Cardinality(GuardTimerIndices) <= 1

\* A filter request is made in this step.
FilterRequested == searchText' /= searchText

\* C13: a filter request replaces the pending timeout by one of the full 120
\* ms, so of a burst only the last request runs the callback, once, with the
\* query read when it fires; queueFilter(true) leaves no timeout pending and
\* runs the callback in the same step.
C13_SearchDebounced ==
    /\ [](mode = "popup" =>
            /\ Len(searchTimers) <= 1
            /\ searchTimers /= <<>> => searchTimers[1].id = searchTimeoutId
            /\ searchRuns <= 1
            /\ searchRan = "timer" =>
                   searchRuns = 1 /\ query = getQuery(searchText)
            /\ searchRan = "immediate" =>
                   searchTimers = <<>> /\ query = getQuery(searchText))
    /\ [][FilterRequested =>
              /\ Len(searchTimers') = 1
              /\ searchTimers'[1].ms = SEARCH_DEBOUNCE_MS
              /\ searchRan' = ""]_vars

\* C13 witness: the timeout of the last request of a burst has run the
\* callback with a trimmed, lower-cased query.
C13_Witness ==
    /\ mode = "popup"
    /\ searchRan = "timer"
    /\ searchBurst = 2
    /\ searchText = <<32, 66>>
    /\ query = <<98>>
    /\ view = "flat"

\* C14: after the popup is closed no search, scroll or guard timer is pending
\* (so none fires and nothing is rendered or scrolled afterwards).
C14_CloseCancelsTimers ==
    (mode = "popup" /\ ~popupOpen) => (searchTimers = <<>> /\ popupTimers = <<>>)

(***************************************************************************)
(* Claims about sections, tabs and the grouped render                      *)
(***************************************************************************)
\* C15: every entry of the registered section map is a header that is now
\* rendered in the grid.
C15_SectionsAreRendered ==
    mode = "popup" =>
        \A i \in 1..Len(categorySections) :
            \E j \in 1..Len(gridHeaders) : gridHeaders[j] = categorySections[i]

\* A tracked glyph that the dataset has.
FrequentHasMembers ==
    \E i \in 1..Len(usageCount), j \in 1..Len(emojiData) :
        usageCount[i][1] = emojiData[j].emoji

\* C16: every tab is a category of the dataset, and the "Frequently Used"
\* tab exists only when the category has members.
C16_TabsHaveMembers ==
    mode = "popup" =>
        \A i \in 1..Len(categoryButtons) :
            IF categoryButtons[i] = "Frequently Used" THEN FrequentHasMembers
            ELSE OccursInData(categoryButtons[i])

\* The names of the headers in the grid, top to bottom.
HeaderNames == [i \in 1..Len(gridHeaders) |-> gridHeaders[i][1]]

\* The category a record is rendered under.
RenderedCategory(item) == IF item.category = "" THEN "Other" ELSE item.category

\* C17: the grouped render emits the sections in collectCategories order
\* ("Frequently Used" first, then the predefined order), whatever the order
\* in which the dataset shows the categories, each with its members in
\* dataset order.
C17_SectionsInPredefinedOrder ==
    (mode = "grouped" /\ view = "grouped") =>
        /\ \A i, j \in 1..Len(HeaderNames) :
               (i < j /\ PredefinedIndex(HeaderNames[i]) > 0
                      /\ PredefinedIndex(HeaderNames[j]) > 0)
                   => PredefinedIndex(HeaderNames[i]) < PredefinedIndex(HeaderNames[j])
        /\ LET groups == categorizedEmojis(emojiData, usageCount)
           IN  \A g \in 1..Len(groups) :
                   groups[g][1] /= "Frequently Used" =>
                       groups[g][2] = SelectSeq(emojiData,
                                          LAMBDA item : RenderedCategory(item) = groups[g][1])

\* The categories that have at least one member.
CategoriesWithMembers ==
    {RenderedCategory(emojiData[i]) : i \in 1..Len(emojiData)}
        \cup (IF FrequentHasMembers THEN {"Frequently Used"} ELSE {})

UserScrollStep ==
    /\ mode = "popup"
    /\ scrollValue' /= scrollValue
    /\ UNCHANGED <<popupTimers, query, view, categorySections>>

\* The registered sections at or above the viewport top scrollY, when the
\* headers answer their offsets with outcome d.
AtOrAbove(scrollY, d) ==
    {i \in 1..Len(categorySections) :
        LET y == sectionY(categorySections[i], view = "grouped", d)
        IN  y >= 0 /\ scrollY - y >= 0}

Nearest(scrollY, d) ==
    {i \in AtOrAbove(scrollY, d) :
        \A j \in AtOrAbove(scrollY, d) :
            sectionY(categorySections[i], view = "grouped", d)
                >= sectionY(categorySections[j], view = "grouped", d)}

\* C19: a user scroll outside the guard window makes the registered section
\* nearest at or above the viewport top the current category, leaves the
\* current category alone when no section qualifies, and issues no scroll
\* command.
C19_ScrollPicksNearestSection ==
    [][(UserScrollStep /\ ~programmaticScroll) =>
          /\ \E d \in allocationOutcomes(view = "grouped") :
                 IF Nearest(scrollValue', d) = {}
                 THEN currentCategory' = currentCategory
                 ELSE \E i \in Nearest(scrollValue', d) :
                          currentCategory' = categorySections[i][1]
          /\ activeButtons' = updateCategoryStates(categoryButtons, currentCategory')
                 \/ currentCategory' = currentCategory
          /\ programmaticScroll' = programmaticScroll
          /\ lastFire' = <<>>]_vars

\* C19 witness: a scroll to the header of "Other", a section no tab leads to,
\* has made it the current category.
C19_Witness ==
    /\ mode = "popup"
    /\ view = "grouped"
    /\ ~programmaticScroll
    /\ currentCategory = "Other"
    /\ scrollValue = RegisteredOffset("Other")
    /\ scrollValue > 0

(***************************************************************************)
(* Claims about skin tones                                                 *)
(***************************************************************************)
ToneModifiers == {SKIN_TONES[k] : k \in 1..Len(SKIN_TONES)} \ {<<>>}

\* A glyph that carries no tone modifier.
IsBaseGlyph(g) == \A t \in ToneModifiers : ~includes(g, t)

RECURSIVE WithoutAll(_, _)
WithoutAll(g, m) ==
    IF Len(g) < Len(m) THEN g
    ELSE IF SubSeq(g, 1, Len(m)) = m THEN WithoutAll(SubSeq(g, Len(m) + 1, Len(g)), m)
    ELSE <<g[1]>> \o WithoutAll(Tail(g), m)

StrippedOfAll(g) ==
    WithoutAll(WithoutAll(WithoutAll(WithoutAll(WithoutAll(g, LIGHT), MEDIUM_LIGHT),
                                     MEDIUM), MEDIUM_DARK), DARK)

EndsWithSelector(g) == g /= <<>> /\ g[Len(g)] = 65039

WithoutFirst(g, m) ==
    IF \E i \in 1..(Len(g) - 1) : <<g[i], g[i + 1]>> = m
    THEN LET i == CHOOSE i \in 1..(Len(g) - 1) :
                      /\ <<g[i], g[i + 1]>> = m
                      /\ \A h \in 1..(i - 1) : <<g[h], g[h + 1]>> /= m
         IN  [k \in 1..(Len(g) - 2) |-> IF k < i THEN g[k] ELSE g[k + 2]]
    ELSE g

StrippedOfFirst(g) ==
    WithoutFirst(WithoutFirst(WithoutFirst(WithoutFirst(WithoutFirst(g, LIGHT),
                                                         MEDIUM_LIGHT),
                                           MEDIUM), MEDIUM_DARK), DARK)

SelectorPlaces(g) == {i \in 1..Len(g) : g[i] = 65039}

FileParses ==
    /\ datasetFile.exists
    /\ datasetFile.contents = "ok"
    /\ datasetFile.text = "array"

\* The element passes validation: it has a glyph, a string that is no lone
\* variation selector, no lone joiner and holds no replacement character.
PassesValidation(e) ==
    /\ ~e.null
    /\ e.emoji.t = "string"
    /\ e.emoji.s /= <<>>
    /\ ~(Len(e.emoji.s) = 1 /\ e.emoji.s[1] \in 65024..65039)
    /\ e.emoji.s /= <<8205>>
    /\ \A i \in 1..Len(e.emoji.s) : e.emoji.s[i] /= 65533

\* The record of a valid element, absent keys defaulted.
WithDefaults(e) ==
    [emoji |-> e.emoji.s,
     description |-> IF e.description.t = "undefined" THEN <<>> ELSE e.description.s,
     category |-> IF e.category.t = "undefined" THEN "Other" ELSE e.category.s,
     aliases |-> IF e.aliases.t = "undefined" THEN <<>> ELSE e.aliases.s,
     tags |-> IF e.tags.t = "undefined" THEN <<>> ELSE e.tags.s]

\* C22: when the file is readable and parses, the load is the valid elements
\* in file order with their defaults, every element that fails validation
\* dropped alone and never the fallback in place of the file.
C22_InvalidEntryDroppedAlone ==
    (mode = "loader" /\ lastOp = "loadEmojiData" /\ FileParses) =>
        LET valid == SelectSeq(datasetFile.data, PassesValidation)
        IN  /\ ~loadThrew
            /\ Len(emojiData) = Len(valid)
            /\ \A i \in 1..Len(valid) : emojiData[i] = WithDefaults(valid[i])

\* The file is missing, unreadable or unparseable.
FileUnusable ==
    \/ ~datasetFile.exists
    \/ datasetFile.contents /= "ok"
    \/ datasetFile.text /= "array"

\* The glyphs of the built-in list, in order.
FallbackGlyphs == <<GRINNING, JOY, HEART, THUMBS, FIRE>>

\* C23: when the file is missing, unreadable or unparseable, loadEmojiData
\* returns the built-in list of 5 records and raises nothing.
C23_FallbackOnUnusableFile ==
    (mode = "loader" /\ lastOp = "loadEmojiData" /\ FileUnusable) =>
        /\ ~loadThrew
        /\ emojiData = getFallbackEmojiData
        /\ Len(emojiData) = 5
        /\ \A i \in 1..5 : emojiData[i].emoji = FallbackGlyphs[i]

\* C23 witness: a present file that is no JSON was loaded as the built-in list.
C23_Witness ==
    /\ mode = "loader"
    /\ lastOp = "loadEmojiData"
    /\ datasetFile.exists
    /\ datasetFile.contents = "ok"
    /\ datasetFile.text = "invalid"
    /\ Len(emojiData) = 5
    /\ emojiData[5].emoji = FIRE

\* The text without the spaces at its ends, capitals A..Z as small letters.
Normalized(raw) ==
    LET inner == {i \in 1..Len(raw) : raw[i] /= 32}
    IN  IF inner = {} THEN <<>>
        ELSE LET first == CHOOSE i \in inner : \A j \in inner : i <= j
                 last == CHOOSE i \in inner : \A j \in inner : j <= i
             IN  [k \in 1..(last - first + 1) |->
                     IF raw[first + k - 1] \in 65..90
                     THEN raw[first + k - 1] + 32
                     ELSE raw[first + k - 1]]

\* C26: once no search timeout is pending, the grid shows the grouped view
\* with its headers when the trimmed, lower-cased text of the entry is empty
\* (whitespace-only text included), and the flat list without headers when not.
C26_ViewFollowsQuery ==
    (mode = "popup" /\ searchTimers = <<>>) =>
        /\ query = Normalized(searchText)
        /\ (Normalized(searchText) = <<>>) <=> (view = "grouped" /\ gridHeaders /= <<>>)
        /\ (Normalized(searchText) /= <<>>) <=> (view = "flat" /\ gridHeaders = <<>>)

\* C26 witness: " B" was typed and the debounce has run: the flat list for "b".
C26_Witness ==
    /\ mode = "popup"
    /\ searchText = <<32, 66>>
    /\ searchTimers = <<>>
    /\ query = <<98>>
    /\ view = "flat"
    /\ gridHeaders = <<>>

\* The count the usage map m holds for glyph g (0: none).
CountOf(m, g) ==
    IF \E i \in 1..Len(m) : m[i][1] = g
    THEN m[CHOOSE i \in 1..Len(m) : m[i][1] = g][2]
    ELSE 0

\* The glyphs the usage maps before and after the step hold.
CountedGlyphs ==
    {usageCount[i][1] : i \in 1..Len(usageCount)}
        \cup {usageCount'[i][1] : i \in 1..Len(usageCount')}

\* The step copies glyph g, counts it once more and closes the popup.
SelectionFlowOf(g) ==
    /\ clipboard' = g
    /\ CountOf(usageCount', g) = CountOf(usageCount, g) + 1
    /\ ~popupOpen'

C25_SelectionEffects ==
    [][/\ (mode = "select" /\ selected' /= <<>>) =>
            LET glyph == selected'[1].emoji
            IN  /\ Len(selected') = 1
                /\ clipboard' = glyph
                /\ CountOf(usageCount', glyph) = CountOf(usageCount, glyph) + 1
                /\ \A g \in CountedGlyphs \ {glyph} :
                       CountOf(usageCount', g) = CountOf(usageCount, g)
                /\ IF pasteOnSelect
                   THEN Len(pasteTimers') = Len(pasteTimers) + 1
                   ELSE pasteTimers' = pasteTimers
                /\ ~popupOpen'
       /\ (mode = "select" /\ pastes' /= pastes) => pasteOnSelect]_vars

\* C25 witness: with paste-on-select on and a stored count of 2, the heart
\* was selected.
C25_Witness ==
    /\ mode = "select"
    /\ pasteOnSelect
    /\ selected /= <<>>
    /\ selected[1].emoji = HEART
    /\ clipboard = HEART
    /\ CountOf(usageCount, HEART) = 3
    /\ CountOf(usageCount, GRINNING) = 1
    /\ Len(pasteTimers) = 1
    /\ ~popupOpen

\* The element of the file the i-th loaded record comes from.
SourceEntry(i) == SelectSeq(datasetFile.data, PassesValidation)[i]

DeclaresTones(e) == "skin_tones" \in DOMAIN e /\ e.skin_tones

\* C27: activating an element whose record declares tone variants opens the
\* tone selector without selecting; activating any other element selects that
\* element's record; for the records the loader makes and the renderer the
\* popup builds.
C27_ToneElementsOpenSelector ==
    (mode = "select" /\ lastOp = "activate") =>
        IF DeclaresTones(SourceEntry(activated))
        THEN /\ selectorVisible
             /\ selectorCurrent = <<emojiData[activated]>>
             /\ selected = <<>>
        ELSE selected = <<emojiData[activated]>>

\* The glyph a tone of a glyph is: the glyph itself for Default, else the
\* modifier before the first variation selector or at the end, the first
\* occurrence of each modifier removed before.
DerivedGlyph(g, modifier) ==
    LET stripped == StrippedOfFirst(g)
    IN  IF modifier = <<>> THEN g
        ELSE IF SelectorPlaces(stripped) = {} THEN stripped \o modifier
        ELSE LET i == CHOOSE i \in SelectorPlaces(stripped) :
                          \A h \in SelectorPlaces(stripped) : i <= h
             IN  SubSeq(stripped, 1, i - 1) \o modifier
                     \o SubSeq(stripped, i, Len(stripped))

C29_EscOrOutsideCloses ==
    (mode = "select" /\ lastOp \in {"escape", "clickOutside"}) => ~popupOpen

\* The emojisPerRow of the popup's size: 7, 8 or 14 by mode, or what the
\* custom width gives (44 per element after 16 of padding, at least 6).
PerRow ==
    IF sizeMode = "compact" THEN 7
    ELSE IF sizeMode = "comfortable" THEN 14
    ELSE IF sizeMode = "custom"
         THEN (IF (customWidth - 16) \div 44 > 6 THEN (customWidth - 16) \div 44 ELSE 6)
    ELSE 8

\* The section a record is rendered in besides "Frequently Used".
SectionOf(item) == IF item.category = "" THEN "Other" ELSE item.category

\* Elements in the rows 1..n of the grid.
RECURSIVE ElementsIn(_)
ElementsIn(n) == IF n = 0 THEN 0 ELSE Len(gridRows[n].items) + ElementsIn(n - 1)

\* C30: the rows of the flat and grouped renders hold emojisPerRow elements of
\* the popup's size, but for the last row of a list or section; no row holds
\* two categories; there are as many elements as records rendered.
C30_RowsHoldEmojisPerRow ==
    (mode = "rows" /\ view /= "none") =>
        /\ \A r \in 1..Len(gridRows) :
               /\ Len(gridRows[r].items) >= 1
               /\ Len(gridRows[r].items) <= PerRow
               /\ (r < Len(gridRows) /\ gridRows[r + 1].category = gridRows[r].category)
                      => Len(gridRows[r].items) = PerRow
               /\ \A i \in 1..Len(gridRows[r].items) :
                      \/ gridRows[r].category \in {"", "Frequently Used"}
                      \/ SectionOf(gridRows[r].items[i]) = gridRows[r].category
        /\ ElementsIn(Len(gridRows)) =
               IF view = "flat" THEN Len(results)
               ELSE Len(emojiData)
                        + Cardinality({i \in 1..Len(usageCount) :
                                          \E j \in 1..Len(emojiData) :
                                              emojiData[j].emoji = usageCount[i][1]})

(***************************************************************************)
(* KeybindingManager                                                       *)
(***************************************************************************)
\* Most calls of the manager's methods in one behaviour.
MaxKbCalls == 12

\* How Main.wm.addKeybinding and Main.wm.removeKeybinding may go.
WmOutcomes == {"ok", "throws"}

\* The manager and the shell's binding: the flag, the bindings installed, and
\* whether the call of the shell threw.
KbState(flag, bindings, failed) ==
    [registered |-> flag, bindings |-> bindings, failed |-> failed]

\* A register() that does not look at the flag.
register_NoFlagCheck(flag, use, bindings, outcome) ==
    IF ~use THEN KbState(flag, bindings, FALSE)
    ELSE IF outcome = "throws" THEN KbState(flag, bindings, TRUE)
    ELSE KbState(TRUE, bindings + 1, FALSE)

\* register(): nothing when registered or when 'use-keybind' is false; the
\* flag is set after addKeybinding returned.
register(flag, use, bindings, outcome) ==
    IF flag THEN KbState(flag, bindings, FALSE)
    ELSE IF ~use THEN KbState(flag, bindings, FALSE)
    ELSE IF outcome = "throws" THEN KbState(flag, bindings, TRUE)
    ELSE KbState(TRUE, bindings + 1, FALSE)

\* unregister(): nothing when not registered; the flag is cleared after
\* removeKeybinding returned.
unregister(flag, bindings, outcome) ==
    IF ~flag THEN KbState(flag, bindings, FALSE)
    ELSE IF outcome = "throws" THEN KbState(flag, bindings, TRUE)
    ELSE KbState(FALSE, bindings - 1, FALSE)

\* update()
update(flag, use, bindings, outcome) ==
    IF use /\ ~flag THEN register(flag, use, bindings, outcome)
    ELSE IF ~use /\ flag THEN unregister(flag, bindings, outcome)
    ELSE KbState(flag, bindings, FALSE)

\* What a call on the manager leaves alone.
kbUnchanged ==
    UNCHANGED <<emojiData, mode, query, results, filtered, usageCount, saveTimers,
                persisted, tracked, burstCalls, burstWrites, burstMixed, lastOp,
                frequent, limit, categories, categoryButtons, activeButtons,
                currentCategory, categorySections, view, gridHeaders, contentHeight,
                scrollValue, programmaticScroll, popupTimers, clicked, lastFire,
                searchVars, searchRan, toneVars, loaderVars, selectVars, rowVars,
                extEnabled, enables, showIndicator, currentMode, extHandlers,
                sizeHandlers, button, panelButtons, sizeCallbacks, staleSaves,
                popupLedger>>

\* The call leaves the manager and the shell as after says.
kbCall(op, after) ==
    /\ kbCalls < MaxKbCalls
    /\ kbCalls' = kbCalls + 1
    /\ kbOp' = op
    /\ kbRegistered' = after.registered
    /\ wmBindings' = after.bindings
    /\ kbFailed' = after.failed

\* new KeybindingManager(settings, ...) in a shell that has no binding of
\* the name installed.
InitKeybinding ==
    /\ mode = "keybinding"
    /\ emojiData = <<>>
    /\ persisted = <<>>
    /\ usageCount = <<>>
    /\ InitCommon
    /\ NoPopup
    /\ NoTone
    /\ NoLoader
    /\ NoSelect
    /\ NoRows
    /\ extEnabled = TRUE
    /\ enables = 1
    /\ useKeybind \in BOOLEAN
    /\ showIndicator = FALSE
    /\ currentMode = "default"
    /\ kbRegistered = FALSE
    /\ wmBindings = 0
    /\ kbOp = ""
    /\ kbFailed = FALSE
    /\ kbCalls = 0
    /\ extHandlers = 1
    /\ sizeHandlers = 1
    /\ button = FALSE
    /\ panelButtons = 0
    /\ sizeCallbacks = 0
    /\ staleSaves = <<>>
    /\ popups = 0
    /\ builtWidth = 0

\* register()
Register(outcome) ==
    /\ mode = "keybinding"
    /\ kbCall("register", register(kbRegistered, useKeybind, wmBindings, outcome))
    /\ UNCHANGED useKeybind
    /\ kbUnchanged

\* unregister()
Unregister(outcome) ==
    /\ mode = "keybinding"
    /\ kbCall("unregister", unregister(kbRegistered, wmBindings, outcome))
    /\ UNCHANGED useKeybind
    /\ kbUnchanged

\* 'use-keybind' is set to use: 'changed' runs #onSettingsChanged, which
\* calls update().
UseKeybindChanged(use, outcome) ==
    /\ mode = "keybinding"
    /\ use /= useKeybind
    /\ useKeybind' = use
    /\ kbCall("update", update(kbRegistered, use, wmBindings, outcome))
    /\ kbUnchanged

\* update() while the setting is as it was.
Update(outcome) ==
    /\ mode = "keybinding"
    /\ kbCall("update", update(kbRegistered, useKeybind, wmBindings, outcome))
    /\ UNCHANGED useKeybind
    /\ kbUnchanged

NextKeybinding ==
    \/ \E o \in WmOutcomes : Register(o)
    \/ \E o \in WmOutcomes : Unregister(o)
    \/ \E use \in BOOLEAN, o \in WmOutcomes : UseKeybindChanged(use, o)
    \/ \E o \in WmOutcomes : Update(o)

SpecKeybinding == InitKeybinding /\ [][NextKeybinding]_vars

(***************************************************************************)
(* Claims about the cut of getFrequentlyUsed                               *)
(***************************************************************************)
\* The place of the i-th entry of the usage map in the order of the sort:
\* one more than the entries of a larger count and the earlier entries of
\* the same count.
RankOf(i) ==
    1 + Cardinality({j \in 1..Len(usageCount) :
                        \/ usageCount[j][2] > usageCount[i][2]
                        \/ usageCount[j][2] = usageCount[i][2] /\ j < i})

GlyphInDataset(g) == \E p \in 1..Len(emojiData) : emojiData[p].emoji = g

\* The tracked glyphs the dataset holds.
TrackedPresent == {i \in 1..Len(usageCount) : GlyphInDataset(usageCount[i][1])}

\* C31: getFrequentlyUsed cuts the tracked glyphs to the top `limit` before
\* the dataset lookup: a glyph is returned exactly when it is among the top
\* `limit` tracked glyphs and the dataset holds it, so a tracked glyph the
\* dataset lacks keeps its slot and a glyph just below the cut is not promoted.
C31_CutBeforeLookup ==
    FrequentCalled =>
        /\ \A i \in 1..Len(usageCount) :
               (\E n \in 1..Len(frequent) : frequent[n].emoji = usageCount[i][1])
                   <=> (RankOf(i) <= limit /\ i \in TrackedPresent)
        /\ Len(frequent) = Cardinality({i \in TrackedPresent : RankOf(i) <= limit})

\* C31 witness: at least `limit` tracked glyphs are in the dataset, a tracked
\* glyph the dataset lacks is in the top `limit`, and the call returned fewer
\* than `limit` records, leaving out a glyph of the dataset ranked limit + 1.
C31_Witness ==
    /\ lastOp = "getFrequentlyUsed"
    /\ limit > 0
    /\ Cardinality(TrackedPresent) >= limit
    /\ \E i \in 1..Len(usageCount) : RankOf(i) <= limit /\ i \notin TrackedPresent
    /\ Len(frequent) < limit
    /\ \E i \in TrackedPresent :
           /\ RankOf(i) = limit + 1
           /\ \A n \in 1..Len(frequent) : frequent[n].emoji /= usageCount[i][1]

(***************************************************************************)
(* Claims about the values of the frequency map                            *)
(***************************************************************************)
\* C32: every value of the frequency map is a non-negative integer, also
\* after loadUsageData accepted stored data and after trackUsage calls on it.
C32_CountsNonNegative ==
    \A i \in 1..Len(usageCount) : usageCount[i][2] \in Nat

(***************************************************************************)
(* Claims about two tab clicks and about the tab and scroll rules          *)
(***************************************************************************)
\* A guard window is still running: a guard timeout with time left.
GuardPending(timers) ==
    \E i \in 1..Len(timers) : timers[i].kind = "guard" /\ timers[i].ms > 0

\* C34: when a second tab click scrolls before the guard window of the first
\* has ended, the guard timeout left from the first click does not end the
\* suppression: when a guard timeout runs while another is pending, scroll
\* events stay suppressed.
C34_LeftoverGuardKeepsSuppression ==
    [][(/\ dueTimer > 0
        /\ popupTimers[dueTimer].kind = "guard"
        /\ popupTimers' = removeAt(popupTimers, dueTimer)
        /\ GuardPending(popupTimers'))
           => programmaticScroll']_vars

\* C35: the offset a click on the tab of category C scrolls to is one at which
\* the rule of the scroll listener selects C: a scroll notification at that
\* offset, with the guard expired and C current, leaves C current.
C35_ClickOffsetSelectsCategory ==
    (lastFire /= <<>> /\ lastFire.commands = 1 /\ view = "grouped") =>
        onScroll(categorySections, scrollValue, TRUE, "last", FALSE, lastFire.category)
            = lastFire.category

(***************************************************************************)
(* Claims about KeybindingManager                                          *)
(***************************************************************************)
Installed == wmBindings > 0

\* C37: the registered flag equals whether the binding is installed;
\* register() adds no binding while one is installed or while 'use-keybind'
\* is false; unregister() does nothing when not registered; a failed add or
\* remove leaves the flag as it was; and after an update() in which nothing
\* failed the flag equals 'use-keybind'.
C37_FlagFollowsBinding ==
    /\ [](mode = "keybinding" => (kbRegistered <=> Installed))
    /\ [](mode = "keybinding" => wmBindings \in {0, 1})
    /\ [][(kbOp' = "register" /\ wmBindings' > wmBindings)
              => (~Installed /\ useKeybind)]_vars
    /\ [][(kbOp' = "unregister" /\ ~kbRegistered)
              => (wmBindings' = wmBindings /\ ~kbRegistered')]_vars
    /\ [][kbFailed' => (kbRegistered' = kbRegistered /\ wmBindings' = wmBindings)]_vars
    /\ []((kbOp = "update" /\ ~kbFailed) => (kbRegistered <=> useKeybind))

\* C37 witness: an update() after the setting went to false has removed the
\* binding an earlier register() installed, after a remove that failed.
C37_Witness ==
    /\ mode = "keybinding"
    /\ kbOp = "update"
    /\ ~kbFailed
    /\ ~useKeybind
    /\ ~kbRegistered
    /\ kbCalls >= 3

(***************************************************************************)
(* The extension's life cycle: enable(), disable(), the settings handlers  *)
(***************************************************************************)

ExtModes == {"host", "session"}

\* Most enable() calls in one behaviour.
MaxEnables == 2

trackerState == <<emojiData, loadThrew, usageCount, saveTimers, persisted,
                  staleSaves, pasteTimers, failedWrites>>

settingsState == <<useKeybind, showIndicator, sizeMode, customWidth>>

lifeState == <<extEnabled, enables, extHandlers, sizeHandlers>>

bindingState == <<kbRegistered, wmBindings, kbOp, kbFailed>>

buttonState == <<button, panelButtons>>

sizeState == <<currentMode, sizeCallbacks>>

searchTimerState == <<searchTimers, searchTimeoutId, searchRuns, searchBurst>>

\* What a handler of the life cycle leaves alone, and the history of the step.
extStep(op) ==
    /\ lastOp' = op
    /\ selected' = <<>>
    /\ activated' = 0
    /\ handlerThrew' = FALSE
    /\ UNCHANGED <<mode, query, results, filtered, tracked, burstCalls, burstWrites,
                   burstMixed, frequent, limit, categories, clicked, lastFire,
                   searchRan, toneVars, datasetFile, backend, pasteOnSelect,
                   clipboard, toast, pastes, selectorCurrent, selectorVisible,
                   kbCalls, selections>>

\* #createPanelButton: nothing when #button is set.
createPanelButton ==
    IF button THEN UNCHANGED buttonState
    ELSE button' = TRUE /\ panelButtons' = panelButtons + 1

\* A #removePanelButton that drops the reference and leaves the widget.
removePanelButton_KeepWidget ==
    IF button THEN button' = FALSE /\ UNCHANGED panelButtons
    ELSE UNCHANGED buttonState

\* #removePanelButton
removePanelButton ==
    IF button THEN button' = FALSE /\ panelButtons' = panelButtons - 1
    ELSE UNCHANGED buttonState

\* #destroyPopup: the widget leaves the stage (its transitions with it), the
\* references to its parts are dropped.
destroyPopup ==
    /\ categoryButtons' = <<>>
    /\ activeButtons' = {}
    /\ currentCategory' = ""
    /\ categorySections' = <<>>
    /\ view' = "none"
    /\ gridHeaders' = <<>>
    /\ contentHeight' = 0
    /\ scrollValue' = 0
    /\ programmaticScroll' = FALSE
    /\ skinToneSelector' = "null"
    /\ gridRows' = <<>>
    /\ popups' = IF view = "none" THEN popups ELSE popups - 1
    /\ builtWidth' = 0
    /\ popupOpen' = FALSE
    /\ searchText' = <<>>
    /\ popupTimers' = <<>>

\* The save timeouts a dropped tracker leaves behind: each keeps the tracker,
\* and so its Map, alive.
orphaned(timers, m) == [i \in 1..Len(timers) |-> [ms |-> timers[i], map |-> m]]

\* enable(): the dataset, the tracker and the managers are made, the panel
\* button if 'show-indicator', the shortcut if 'use-keybind' (addKeybinding
\* going as outcome says), then the 'changed' handler is connected.
EnableExt(outcome) ==
    /\ mode \in ExtModes
    /\ ~extEnabled
    /\ enables < MaxEnables
    /\ extEnabled' = TRUE
    /\ enables' = enables + 1
    /\ emojiData' = loadEmojiData(datasetFile).value
    /\ loadThrew' = loadEmojiData(datasetFile).threw
    /\ usageCount' = loadUsageDataOutcome(backend, persisted).value
    /\ currentMode' = sizeMode
    /\ sizeHandlers' = sizeHandlers + 1
    /\ sizeCallbacks' = 0
    /\ LET kb == IF useKeybind THEN register(FALSE, useKeybind, wmBindings, outcome)
                 ELSE KbState(FALSE, wmBindings, FALSE)
       IN  /\ kbRegistered' = kb.registered
           /\ wmBindings' = kb.bindings
           /\ kbFailed' = kb.failed
           /\ kbOp' = IF useKeybind THEN "register" ELSE ""
    /\ IF showIndicator THEN createPanelButton ELSE UNCHANGED buttonState
    /\ extHandlers' = extHandlers + 1
    /\ UNCHANGED <<saveTimers, persisted, staleSaves, pasteTimers, failedWrites,
                   settingsState, searchVars, popupTimers>>
    /\ builtUnchanged
    /\ extStep("enable")

\* disable(): the 'changed' handler goes, SearchManager.destroy() removes the
\* pending search timeout, the shortcut is unregistered (removeKeybinding
\* going as outcome says), PopupSizeManager.destroy(), #destroyPopup,
\* #removePanelButton; the references are dropped, the tracker's among them.
DisableExt(outcome) ==
    /\ mode \in ExtModes
    /\ extEnabled
    /\ extEnabled' = FALSE
    /\ extHandlers' = extHandlers - 1
    /\ searchTimers' = IF view /= "none"
                       THEN cancelPending(searchTimers, searchTimeoutId)
                       ELSE searchTimers
    /\ searchTimeoutId' = 0
    /\ LET kb == unregister(kbRegistered, wmBindings, outcome)
       IN  /\ kbRegistered' = FALSE
           /\ wmBindings' = kb.bindings
           /\ kbFailed' = kb.failed
           /\ kbOp' = "unregister"
    /\ sizeHandlers' = sizeHandlers - 1
    /\ currentMode' = ""
    /\ sizeCallbacks' = 0
    /\ destroyPopup
    /\ removePanelButton
    /\ staleSaves' = staleSaves \o orphaned(saveTimers, usageCount)
    /\ saveTimers' = <<>>
    /\ usageCount' = <<>>
    /\ emojiData' = <<>>
    /\ UNCHANGED <<enables, loadThrew, persisted, pasteTimers, failedWrites,
                   settingsState, searchRuns, searchBurst>>
    /\ extStep("disable")

(***************************************************************************)
(* Selections across disable() and enable()                                *)
(***************************************************************************)

\* The outcomes of a call of the shell that may or may not be made.
wmOutcomesFor(called) == IF called THEN WmOutcomes ELSE {"ok"}

\* A save timeout of a dropped tracker is due: its saveUsageData writes the
\* Map of that tracker, set_string going as write says.
StaleSaveFires(write) ==
    /\ mode \in ExtModes
    /\ staleSaves /= <<>>
    /\ Head(staleSaves).ms = 0
    /\ staleSaves' = Tail(staleSaves)
    /\ persisted' = saveUsageDataOutcome(Head(staleSaves).map, write, persisted).value
    /\ failedWrites' = IF write = "throws" THEN failedWrites + 1 ELSE failedWrites
    /\ UNCHANGED <<emojiData, loadThrew, usageCount, saveTimers, pasteTimers,
                   settingsState, lifeState, bindingState, buttonState, sizeState,
                   searchVars, popupTimers>>
    /\ builtUnchanged
    /\ extStep(IF write = "throws" THEN "staleSaveFailed" ELSE "staleSave")

\* Time passes while no timeout is due.
TickSession ==
    /\ mode = "session"
    /\ saveTimers /= <<>> \/ staleSaves /= <<>> \/ pasteTimers /= <<>>
    /\ \A i \in 1..Len(saveTimers) : saveTimers[i] > 0
    /\ \A i \in 1..Len(staleSaves) : staleSaves[i].ms > 0
    /\ \A i \in 1..Len(pasteTimers) : pasteTimers[i] > 0
    /\ saveTimers' = [i \in 1..Len(saveTimers) |-> Max(0, saveTimers[i] - TickMs)]
    /\ staleSaves' = [i \in 1..Len(staleSaves) |->
                         [staleSaves[i] EXCEPT !.ms = Max(0, @ - TickMs)]]
    /\ pasteTimers' = [i \in 1..Len(pasteTimers) |->
                          Max(0, pasteTimers[i] - TickMs)]
    /\ UNCHANGED <<emojiData, loadThrew, usageCount, persisted, failedWrites,
                   settingsState, lifeState, bindingState, buttonState, sizeState,
                   searchVars, popupTimers>>
    /\ builtUnchanged
    /\ extStep("tick")

\* The extension before enable(), with the panel button as the way to the
\* popup and the usage stored by earlier sessions.
InitSession ==
    /\ mode = "session"
    /\ emojiData = <<>>
    /\ usageCount = <<>>
    /\ backend = "ok"
    /\ persisted \in PopupStoredMaps
    /\ InitCommon
    /\ NoPopup
    /\ NoTone
    /\ datasetFile = [exists |-> TRUE, contents |-> "ok", text |-> "array",
                      data |-> << Entry(Str(HEART), Undefined, Str("Symbols"),
                                        Undefined, Undefined) >>]
    /\ loadThrew = FALSE
    /\ pasteOnSelect = FALSE
    /\ clipboard = <<>>
    /\ pasteTimers = <<>>
    /\ pastes = 0
    /\ toast = <<>>
    /\ skinToneSelector = "null"
    /\ selectorCurrent = <<>>
    /\ selectorVisible = FALSE
    /\ selected = <<>>
    /\ activated = 0
    /\ handlerThrew = FALSE
    /\ selections = 0
    /\ failedWrites = 0
    /\ NoRows
    /\ extEnabled = FALSE
    /\ enables = 0
    /\ useKeybind \in BOOLEAN
    /\ showIndicator = TRUE
    /\ currentMode = ""
    /\ kbRegistered = FALSE
    /\ wmBindings = 0
    /\ kbOp = ""
    /\ kbFailed = FALSE
    /\ kbCalls = 0
    /\ extHandlers = 0
    /\ sizeHandlers = 0
    /\ button = FALSE
    /\ panelButtons = 0
    /\ sizeCallbacks = 0
    /\ staleSaves = <<>>
    /\ popups = 0
    /\ builtWidth = 0

NextSession ==
    \/ \E outcome \in wmOutcomesFor(useKeybind) : EnableExt(outcome)
    \/ \E outcome \in wmOutcomesFor(kbRegistered) : DisableExt(outcome)
    \/ TogglePopup
    \/ \E i \in 1..Len(emojiData) : ActivateElement(i)
    \/ \E write \in {"ok", "throws"} : SaveFires(write)
    \/ \E write \in {"ok", "throws"} : StaleSaveFires(write)
    \/ TickSession

SpecSession == InitSession /\ [][NextSession]_vars

\* C33: once selections have stopped and every pending save timeout has fired,
\* no write having failed, the stored usage mapping is that of the tracker's
\* in-memory Map -- also when disable() ran while a save timeout was pending.
C33_SettledStoreMatchesMemory ==
    (/\ mode = "session"
     /\ extEnabled
     /\ saveTimers = <<>>
     /\ staleSaves = <<>>
     /\ failedWrites = 0)
        => persisted = saveUsageData(usageCount)

(***************************************************************************)
(* The popup under the life cycle.  In this part popupOpen is the widget's *)
(* `visible` property: #hidePopup starts a fade and the widget is hidden   *)
(* only when the fade completes.  The fade is the entry of kind "fade" in  *)
(* popupTimers.                                                            *)
(***************************************************************************)

\* The duration of the fade #hidePopup starts.
FADE_MS == 120

\* The values prefs.js writes to 'popup-size-mode' and widths it may write
\* to 'popup-width'.
HostSizeModes == {"compact", "default", "custom"}
HostWidths == {300, 640}

\* What the user types into the search entry, and the queries a search
\* callback may be given.
HostTexts == { <<>>, <<98>> }
HostQueries == {getQuery(raw) : raw \in HostTexts}

\* A #togglePopup that shows whatever it finds.
togglePopup_AlwaysShow(forceHide, exists, visible) ==
    IF forceHide THEN (IF exists /\ visible THEN "hide" ELSE "none")
    ELSE "show"

\* #togglePopup(forceHide) on a popup that exists or not, visible or not:
\* which of #showPopup and #hidePopup it calls.
togglePopup(forceHide, exists, visible) ==
    IF forceHide THEN (IF exists /\ visible THEN "hide" ELSE "none")
    ELSE IF ~exists \/ ~visible THEN "show"
    ELSE "hide"

\* An #onSettingChanged that calls back on every change of the three keys.
onSettingChanged_Always(newMode, current) ==
    [currentMode |-> newMode, callback |-> TRUE]

\* PopupSizeManager.#onSettingChanged with newMode in the setting: the mode
\* the manager holds after it and whether the callback is called.
onSettingChanged(newMode, current) ==
    [currentMode |-> newMode, callback |-> newMode /= current]

\* The 'changed' handler of PopupSizeManager for one of its three keys, the
\* settings now holding (newMode, width); its callback #onPopupSizeChange
\* destroys a popup that exists and builds a new one, which is not shown.  A
\* pending search timeout of the popup that goes is not removed.
sizeSettingChanged(newMode, width) ==
    IF ~extEnabled
    THEN /\ UNCHANGED <<currentMode, popupOpen, searchText, popupTimers,
                        searchTimeoutId>>
         /\ sizeCallbacks' = 0
         /\ builtUnchanged
    ELSE LET after == onSettingChanged(newMode, currentMode)
         IN  /\ currentMode' = after.currentMode
             /\ sizeCallbacks' = IF after.callback THEN 1 ELSE 0
             /\ IF after.callback /\ view /= "none"
                THEN /\ buildPopupWith(newMode, width, popups - 1)
                     /\ popupOpen' = FALSE
                     /\ searchText' = <<>>
                     /\ popupTimers' = <<>>
                     /\ searchTimeoutId' = 0
                ELSE /\ UNCHANGED <<popupOpen, searchText, popupTimers,
                                    searchTimeoutId>>
                     /\ builtUnchanged

\* #hidePopup: the entry is cleared (an entry that was not empty emits
\* 'text-changed') and the fade starts, in place of one that is running.
fadeOut ==
    /\ searchText' = <<>>
    /\ IF searchText /= <<>> THEN queueFilter ELSE UNCHANGED searchTimerState
    /\ popupTimers' = <<[kind |-> "fade", category |-> "", ms |-> FADE_MS]>>
    /\ UNCHANGED popupOpen

\* #togglePopup(forceHide): from the panel button or the shortcut, or with
\* forceHide from the close button of a popup that can be clicked.
HostToggle(forceHide) ==
    /\ mode = "host"
    /\ extEnabled
    /\ IF forceHide THEN popupOpen ELSE button \/ wmBindings > 0
    /\ LET call == togglePopup(forceHide, view /= "none", popupOpen)
       IN  \/ /\ call = "show"
              /\ IF view = "none" THEN buildPopup ELSE builtUnchanged
              /\ popupOpen' = TRUE
              /\ UNCHANGED <<searchText, searchTimerState, popupTimers>>
           \/ /\ call = "hide"
              /\ fadeOut
              /\ builtUnchanged
           \/ /\ call = "none"
              /\ UNCHANGED <<popupOpen, searchText, searchTimerState, popupTimers>>
              /\ builtUnchanged
    /\ UNCHANGED <<trackerState, settingsState, lifeState, bindingState, buttonState,
                   sizeState>>
    /\ extStep(IF forceHide THEN "close" ELSE "toggle")

\* The fade is over: onComplete hides the widget.
FadeCompletes ==
    /\ mode = "host"
    /\ dueTimer > 0
    /\ popupTimers[dueTimer].kind = "fade"
    /\ popupTimers' = removeAt(popupTimers, dueTimer)
    /\ popupOpen' = FALSE
    /\ UNCHANGED <<searchText, searchTimerState, trackerState, settingsState,
                   lifeState, bindingState, buttonState, sizeState>>
    /\ builtUnchanged
    /\ extStep("fade")

\* The user edits the entry of the visible popup: queueFilter().
HostType(raw) ==
    /\ mode = "host"
    /\ popupOpen
    /\ raw /= searchText
    /\ searchText' = raw
    /\ queueFilter
    /\ UNCHANGED <<popupOpen, popupTimers, trackerState, settingsState, lifeState,
                   bindingState, buttonState, sizeState>>
    /\ builtUnchanged
    /\ extStep("type")

\* A search timeout is due and its callback gets the query q: the entry's,
\* when the timeout is the one of the popup's SearchManager; any, when it is
\* one a destroyed popup left (its entry is disposed).  #applyFilter renders
\* the matches or the groups, or nothing when there is no popup.
HostSearchFires(q) ==
    /\ mode = "host"
    /\ dueSearchTimer > 0
    /\ LET own == searchTimers[dueSearchTimer].id = searchTimeoutId
           grouped == q = <<>>
           layout == IF grouped THEN groupedLayout(emojiData, usageCount)
                     ELSE flatLayout(filterEmojis(q, emojiData))
       IN  /\ own => q = getQuery(searchText)
           /\ searchTimeoutId' = IF own THEN 0 ELSE searchTimeoutId
           /\ IF view = "none"
              THEN builtUnchanged
              ELSE /\ view' = IF grouped THEN "grouped" ELSE "flat"
                   /\ gridHeaders' = layout.headers
                   /\ contentHeight' = layout.height
                   /\ categorySections' = IF grouped THEN layout.headers
                                          ELSE categorySections
                   /\ scrollValue' = clampScroll(scrollValue, layout.height)
                   /\ gridRows' = IF grouped THEN groupedRows(emojiData, usageCount)
                                  ELSE flatRows(filterEmojis(q, emojiData))
                   /\ UNCHANGED <<categoryButtons, currentCategory, activeButtons,
                                  programmaticScroll, skinToneSelector, popupLedger>>
    /\ searchTimers' = removeAt(searchTimers, dueSearchTimer)
    /\ searchRuns' = searchRuns + 1
    /\ UNCHANGED <<popupOpen, searchText, searchBurst, popupTimers, trackerState,
                   settingsState, lifeState, bindingState, buttonState, sizeState>>
    /\ extStep("search")

\* Time passes while no timeout is due and no fade is over.
HostTick ==
    /\ mode = "host"
    /\ popupTimers /= <<>> \/ searchTimers /= <<>>
    /\ dueTimer = 0
    /\ dueSearchTimer = 0
    /\ popupTimers' = [i \in 1..Len(popupTimers) |->
                          [popupTimers[i] EXCEPT !.ms = Max(0, @ - PopupTickMs)]]
    /\ searchTimers' = [i \in 1..Len(searchTimers) |->
                           [searchTimers[i] EXCEPT !.ms = Max(0, @ - PopupTickMs)]]
    /\ UNCHANGED <<popupOpen, searchText, searchTimeoutId, searchRuns, searchBurst,
                   trackerState, settingsState, lifeState, bindingState, buttonState,
                   sizeState>>
    /\ builtUnchanged
    /\ extStep("tick")

\* 'use-keybind' is set to use: #onSettingsChanged calls update(), the call
\* of the shell going as outcome says.
SetUseKeybind(use, outcome) ==
    /\ mode = "host"
    /\ use /= useKeybind
    /\ useKeybind' = use
    /\ IF extEnabled
       THEN LET kb == update(kbRegistered, use, wmBindings, outcome)
            IN  /\ kbRegistered' = kb.registered
                /\ wmBindings' = kb.bindings
                /\ kbFailed' = kb.failed
                /\ kbOp' = "update"
       ELSE /\ UNCHANGED <<kbRegistered, wmBindings>>
            /\ kbFailed' = FALSE
            /\ kbOp' = ""
    /\ UNCHANGED <<showIndicator, sizeMode, customWidth, trackerState, lifeState,
                   buttonState, sizeState, searchVars, popupTimers>>
    /\ builtUnchanged
    /\ extStep("setUseKeybind")

\* 'show-indicator' is set to show: #onSettingsChanged makes or removes the
\* panel button.
SetShowIndicator(show) ==
    /\ mode = "host"
    /\ show /= showIndicator
    /\ showIndicator' = show
    /\ IF extEnabled
       THEN (IF show THEN createPanelButton ELSE removePanelButton)
       ELSE UNCHANGED buttonState
    /\ UNCHANGED <<useKeybind, sizeMode, customWidth, trackerState, lifeState,
                   bindingState, sizeState, searchVars, popupTimers>>
    /\ builtUnchanged
    /\ extStep("setShowIndicator")

\* 'popup-size-mode' is set to m.
SetSizeMode(m) ==
    /\ mode = "host"
    /\ m /= sizeMode
    /\ sizeMode' = m
    /\ sizeSettingChanged(m, customWidth)
    /\ UNCHANGED <<useKeybind, showIndicator, customWidth, trackerState, lifeState,
                   bindingState, buttonState, searchTimers, searchRuns, searchBurst>>
    /\ extStep("setSizeMode")

\* 'popup-width' is set to w.
SetCustomWidth(w) ==
    /\ mode = "host"
    /\ w /= customWidth
    /\ customWidth' = w
    /\ sizeSettingChanged(sizeMode, w)
    /\ UNCHANGED <<useKeybind, showIndicator, sizeMode, trackerState, lifeState,
                   bindingState, buttonState, searchTimers, searchRuns, searchBurst>>
    /\ extStep("setCustomWidth")

\* The extension before enable(), no usage stored.
InitHost ==
    /\ mode = "host"
    /\ emojiData = <<>>
    /\ usageCount = <<>>
    /\ backend = "ok"
    /\ persisted = <<>>
    /\ InitCommon
    /\ NoPopup
    /\ NoTone
    /\ datasetFile = [exists |-> TRUE, contents |-> "ok", text |-> "array",
                      data |-> << Entry(Str(HEART), Str(<<98>>), Str("Symbols"),
                                        Undefined, Undefined) >>]
    /\ loadThrew = FALSE
    /\ NoSelect
    /\ sizeMode = "default"
    /\ customWidth = 300
    /\ gridRows = <<>>
    /\ extEnabled = FALSE
    /\ enables = 0
    /\ useKeybind \in BOOLEAN
    /\ showIndicator \in BOOLEAN
    /\ currentMode = ""
    /\ kbRegistered = FALSE
    /\ wmBindings = 0
    /\ kbOp = ""
    /\ kbFailed = FALSE
    /\ kbCalls = 0
    /\ extHandlers = 0
    /\ sizeHandlers = 0
    /\ button = FALSE
    /\ panelButtons = 0
    /\ sizeCallbacks = 0
    /\ staleSaves = <<>>
    /\ popups = 0
    /\ builtWidth = 0

NextHost ==
    \/ \E outcome \in wmOutcomesFor(useKeybind) : EnableExt(outcome)
    \/ \E outcome \in wmOutcomesFor(kbRegistered) : DisableExt(outcome)
    \/ \E forceHide \in BOOLEAN : HostToggle(forceHide)
    \/ FadeCompletes
    \/ \E raw \in HostTexts : HostType(raw)
    \/ \E q \in HostQueries : HostSearchFires(q)
    \/ HostTick
    \/ \E use \in BOOLEAN, outcome \in WmOutcomes : SetUseKeybind(use, outcome)
    \/ \E show \in BOOLEAN : SetShowIndicator(show)

SpecHost == InitHost /\ [][NextHost]_vars

\* The popup of an extension that stays enabled, reached by the panel button.
InitHostPopup == InitHost /\ ~useKeybind /\ showIndicator

NextHostPopup ==
    \/ \E outcome \in wmOutcomesFor(useKeybind) : EnableExt(outcome)
    \/ \E forceHide \in BOOLEAN : HostToggle(forceHide)
    \/ FadeCompletes
    \/ \E raw \in HostTexts : HostType(raw)
    \/ \E q \in HostQueries : HostSearchFires(q)
    \/ HostTick
    \/ \E m \in HostSizeModes : SetSizeMode(m)
    \/ \E w \in HostWidths : SetCustomWidth(w)

SpecHostPopup == InitHostPopup /\ [][NextHostPopup]_vars

(***************************************************************************)
(* Claims about #togglePopup                                               *)
(***************************************************************************)

\* The fade a #hidePopup call of this step started.
FreshFade == <<[kind |-> "fade", category |-> "", ms |-> FADE_MS]>>

\* C36: #togglePopup is a two-state machine over the popup's visibility with
\* at most one popup: with forceHide it builds and shows nothing and hides a
\* visible popup only; without, it builds the popup on first use and shows
\* it when it is absent or not visible, and hides it when it is visible;
\* every hide clears the search text.
C36_TwoStateToggle ==
    /\ [](/\ popups \in {0, 1}
          /\ popups = 1 <=> view /= "none"
          /\ popupOpen => popups = 1)
    /\ [][lastOp' = "close" =>
            /\ popups' = popups
            /\ popupOpen' = popupOpen
            /\ builtWidth' = builtWidth
            /\ popupTimers' = FreshFade <=> popupOpen]_vars
    /\ [][lastOp' = "toggle" =>
            IF popups = 0
            THEN popups' = 1 /\ popupOpen' /\ popupTimers' = <<>>
            ELSE IF ~popupOpen
            THEN /\ popupOpen'
                 /\ popupTimers' = <<>>
                 /\ UNCHANGED <<popups, builtWidth, searchText>>
            ELSE /\ popupTimers' = FreshFade
                 /\ UNCHANGED <<popups, builtWidth, popupOpen>>]_vars
    /\ [][(lastOp' \in {"close", "toggle"} /\ popupTimers' = FreshFade)
              => searchText' = <<>>]_vars
    /\ [][(popupOpen /\ ~popupOpen' /\ lastOp' = "fade")
              => popupTimers /= <<>> /\ popupTimers' = <<>>]_vars

\* A visible popup with text in its entry was toggled: it fades, the entry is
\* empty and the change of the text has queued a filter.
C36_Witness ==
    /\ mode = "host"
    /\ lastOp = "toggle"
    /\ popups = 1
    /\ popupOpen
    /\ popupTimers = FreshFade
    /\ searchText = <<>>
    /\ searchBurst = 2
    /\ searchTimers /= <<>>

(***************************************************************************)
(* Claims about PopupSizeManager's callback                                *)
(***************************************************************************)

\* The step changes one of the size settings.
SizeSettingStep == lastOp' \in {"setSizeMode", "setCustomWidth"}

LeftBindings == wmBindings - (IF kbRegistered THEN 1 ELSE 0)

\* What disable() leaves and enable() makes of handlers, popup and button.
HandlersAndWidgets ==
    /\ [][lastOp' = "disable" =>
            /\ ~extEnabled'
            /\ extHandlers' = 0
            /\ sizeHandlers' = 0
            /\ popups' = 0
            /\ view' = "none"
            /\ ~popupOpen'
            /\ panelButtons' = 0
            /\ ~button'
            /\ ~kbRegistered']_vars
    /\ [][lastOp' = "enable" =>
            /\ extHandlers' = 1
            /\ sizeHandlers' = 1
            /\ popups' = 0
            /\ panelButtons' = (IF showIndicator THEN 1 ELSE 0)
            /\ button' = showIndicator]_vars
    /\ [](/\ extHandlers \in {0, 1}
          /\ sizeHandlers \in {0, 1}
          /\ panelButtons \in {0, 1}
          /\ popups \in {0, 1}
          /\ extEnabled <=> extHandlers = 1
          /\ extEnabled <=> sizeHandlers = 1
          /\ button <=> panelButtons = 1)

====
